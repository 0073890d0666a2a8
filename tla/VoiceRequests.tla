--------------------------- MODULE VoiceRequests ---------------------------
(***************************************************************************)
(* The IVoiceControl methods of VoiceControlImplementation                 *)
(* (plugin/VoiceControlImplementation.cpp): the request each sends to      *)
(* ctrlm over IARMBusCall, what it answers, and _maskPii, the copy of      *)
(* ctrlm's masking setting that decides what is logged.  Methods run on    *)
(* the threads of their callers, without a lock; _maskPii is atomic.       *)
(* Of a text only whether it is empty, and of a payload whether it parses  *)
(* as JSON, makes a difference.  ctrlm and the bus are external.           *)
(***************************************************************************)
EXTENDS Naturals, FiniteSets

CONSTANTS
  Caller, \* the threads that call the methods
  Calls,  \* the calls they make, records with the field api
  Items,  \* the lengths of the lists ctrlm replies with
  None    \* an optional that is not set, a label that is absent

ASSUME ConstantsAssumption == Items \subseteq Nat /\ None \notin BOOLEAN

VARIABLES
  configured, \* TRUE once Configure has queried the setting
  maskPii,    \* _maskPii
  caller,     \* the frame of each caller's method
  event,      \* the frame of the event handler
  ctrlmMask,  \* the setting of ctrlm
  reported,   \* the values of it that ctrlm reported so far
  latest,     \* the value the last status reply carried, TRUE before any did
  logged      \* the payloads logged in clear: by whom, which, and what _maskPii was

vars == <<configured, maskPii, caller, event, ctrlmMask, reported, latest, logged>>

-----------------------------------------------------------------------------
(* The requests: the ctrlm call and its parameters.                        *)

Set(c, fields)   == {f \in fields : c[f] # None}
Given(c, fields) == {f \in fields : c[f] \notin {None, "", "0"}}
Request(call, params) == [call |-> call, params |-> params]

ConfigureFields ==
  {"urlAll", "urlPtt", "urlHf", "urlMicTap", "enable", "prv", "wwFeedback", "ptt", "ff", "mic"}

ConfigureVoiceRequest(c) ==
  Request("configureVoice", {<<f, c[f]>> : f \in Set(c, ConfigureFields \cap DOMAIN c)})

SetVoiceInitRequest(c) == Request("setVoiceInit", IF c.payload = "" THEN {} ELSE {c.payload})

(* tryParseJsonValue: what parses goes as a value, the rest as a string.    *)
Payload(p) == IF p = "json" THEN <<"value", p>> ELSE <<"string", p>>

SendVoiceMessageRequest(c) ==
  Request("sendVoiceMessage",
          {<<"msgType", c.msgType>>}
          \cup {<<f, c[f]>> : f \in Given(c, {"trx", "created"})}
          \cup {<<f, Payload(c[f])>> : f \in Given(c, {"msgPayload"})})

VoiceSessionRequestRequest(type, options) ==
  Request("sessionRequest", {<<"type", type>>} \cup options)

VoiceSessionRequestOptions(c) ==
  {<<f, c[f]>> : f \in Set(c, {"transcription", "audio_file", "audio_format", "name"} \cap DOMAIN c)}

TextRequestType(type) ==
  CASE type = "ff"  -> "ff_transcription"
    [] type = "mic" -> "mic_transcription"
    [] OTHER        -> "ptt_transcription"

VoiceSessionByTextRequest(c) ==
  VoiceSessionRequestRequest(TextRequestType(c.type),
                             {<<f, c[f]>> : f \in Given(c, {"transcription"})})

RequestOf(c) ==
  CASE c.api = "configureVoice"      -> ConfigureVoiceRequest(c)
    [] c.api = "setVoiceInit"        -> SetVoiceInitRequest(c)
    [] c.api = "sendVoiceMessage"    -> SendVoiceMessageRequest(c)
    [] c.api = "voiceSessionByText"  -> VoiceSessionByTextRequest(c)
    [] c.api = "voiceSessionRequest" -> VoiceSessionRequestRequest(c.type, VoiceSessionRequestOptions(c))
    [] c.api \in {"voiceSessionTerminate", "voiceSessionAudioStreamStart"}
                                     -> Request(c.api, {<<"sessionId", c.sessionId>>})
    [] OTHER                         -> Request(c.api, {})

(* The methods that log what the caller sent, or mask it.                   *)
LogsPayload(c) ==
  c.api \in {"configureVoice", "setVoiceInit", "sendVoiceMessage", "voiceSessionByText",
             "voiceSessionRequest"}

-----------------------------------------------------------------------------
NoReply  == [ok |-> FALSE, mask |-> None, success |-> None, sessionId |-> None, items |-> 0]
NoAnswer == [success |-> FALSE, mask |-> None, sessionId |-> None, items |-> 0]

(* The frame of a method that has sent nothing yet.                        *)
NewFrame(pc, call, seen, success) ==
  [pc |-> pc, call |-> call, seen |-> seen, executed |-> 0, reply |-> NoReply,
   answer |-> [NoAnswer EXCEPT !.success = success]]

Idle == NewFrame("idle", None, {}, FALSE)

Init ==
  /\ configured = FALSE /\ maskPii = TRUE
  /\ caller = [t \in Caller |-> Idle] /\ event = "idle"
  /\ ctrlmMask \in BOOLEAN /\ reported = {} /\ latest = TRUE /\ logged = {}

Default(value, default) == IF value = None THEN default ELSE value

(* An entry of the log that shows a payload.  "masked" is a payload that the *)
(* implementation hides while _maskPii is TRUE: a request, a reply, a server *)
(* message or a session end; "shown" is that of any other event, for which  *)
(* nobody looks at _maskPii.                                               *)
Clear(who, what, mask) == [who |-> who, what |-> what, mask |-> mask]

LogPayload ==
  logged' = IF maskPii THEN logged ELSE logged \cup {Clear("implementation", "masked", FALSE)}

Report(mask) ==
  /\ reported' = reported \cup ({mask} \ {None})
  /\ latest' = Default(mask, latest)

(* Configure, lines 184-193; Configured is what a client waits for.         *)
Configured(mask) == configured' = TRUE /\ maskPii' = mask

(* Mutant: a setting that is not known is no reason to mask.                *)
ConfigureClear ==
  /\ ~configured
  /\ \/ \E mask \in {ctrlmMask, None} : Report(mask) /\ Configured(Default(mask, FALSE))
     \/ Configured(FALSE) /\ UNCHANGED <<reported, latest>>
  /\ UNCHANGED <<caller, event, ctrlmMask, logged>>

Configure ==
  /\ ~configured
  /\ \/ \E mask \in {ctrlmMask, None} : Report(mask) /\ Configured(Default(mask, TRUE))
     \/ Configured(TRUE) /\ UNCHANGED <<reported, latest>>
  /\ UNCHANGED <<caller, event, ctrlmMask, logged>>

Begin(t, c) ==
  /\ configured /\ caller[t].pc \in {"idle", "answered"}
  /\ LET version == c.api = "getApiVersionNumber" IN
     caller' = [caller EXCEPT ![t] =
       NewFrame(IF version THEN "answered" ELSE "calling", c, {ctrlmMask}, version)]
  /\ IF LogsPayload(c) THEN LogPayload ELSE UNCHANGED logged
  /\ UNCHANGED <<configured, maskPii, event, ctrlmMask, reported, latest>>

(* What ctrlm may reply to a request: any label may be absent.              *)
Replies(c) ==
  [ok : {TRUE}, success : {TRUE, FALSE, None},
   mask      : IF c.api = "getVoiceStatus" THEN {ctrlmMask, None} ELSE {None},
   sessionId : IF RequestOf(c).call = "sessionRequest" THEN {"id", None} ELSE {None},
   items     : IF c.api \in {"getVoiceStatus", "getVoiceSessionTypes"} THEN Items ELSE {0}]

(* IARM_Bus_Call: ctrlm executes the request and its reply arrives, or the  *)
(* call fails, before or after ctrlm has executed it.                      *)
Serve(t) ==
  /\ caller[t].pc = "calling"
  /\ \E reply \in Replies(caller[t].call) :
       /\ caller' = [caller EXCEPT ![t].pc = "replied", ![t].reply = reply, ![t].executed = @ + 1]
       /\ Report(reply.mask)
  /\ UNCHANGED <<configured, maskPii, event, ctrlmMask, logged>>

Fail(t) ==
  /\ caller[t].pc = "calling"
  /\ \E n \in {0, 1} : caller' = [caller EXCEPT ![t].pc = "replied", ![t].executed = @ + n]
  /\ UNCHANGED <<configured, maskPii, event, ctrlmMask, reported, latest, logged>>

(* The lists of an answer are cut to the limits of the interface.          *)
Limit(c) == IF c.api = "getVoiceStatus" THEN 32 ELSE 16
Cut(n, limit) == IF n > limit THEN limit ELSE n

(* VoiceSessionByText passes only the success of VoiceSessionRequest on.    *)
Id(c, reply) == IF c.api = "voiceSessionRequest" THEN reply.sessionId ELSE None

(* Mutants: a list is not cut; a label that is absent counts as success.    *)
AnswerUncut(c, reply) ==
  [success |-> Default(reply.success, FALSE), mask |-> None, sessionId |-> Id(c, reply),
   items |-> reply.items]
AnswerOptimistic(c, reply) ==
  [success |-> Default(reply.success, TRUE), mask |-> None, sessionId |-> Id(c, reply),
   items |-> Cut(reply.items, Limit(c))]

Answer(c, reply) ==
  [success |-> reply.ok /\ Default(reply.success, FALSE), mask |-> None,
   sessionId |-> Id(c, reply), items |-> Cut(reply.items, Limit(c))]

(* IARMBusCall returns, and but for GetVoiceStatus the method.              *)
Return(t) ==
  LET f == caller[t] IN
  /\ f.pc = "replied"
  /\ IF f.reply.ok THEN LogPayload ELSE UNCHANGED logged
  /\ caller' = [caller EXCEPT ![t].pc = IF f.call.api = "getVoiceStatus" THEN "status" ELSE "answered",
                              ![t].answer = Answer(f.call, f.reply)]
  /\ UNCHANGED <<configured, maskPii, event, ctrlmMask, reported, latest>>

(* Mutant: the setting is answered from _maskPii.                           *)
AnswerFromCache(t) ==
  /\ caller[t].pc = "status"
  /\ caller' = [caller EXCEPT ![t].pc = IF caller[t].reply.ok THEN "store" ELSE "answered",
                              ![t].answer.mask = maskPii]
  /\ UNCHANGED <<configured, maskPii, event, ctrlmMask, reported, latest, logged>>

(* GetVoiceStatus, lines 594-610: response.maskPii.                         *)
AnswerMask(t) ==
  LET f == caller[t] IN
  /\ f.pc = "status"
  /\ caller' = [caller EXCEPT ![t].pc = IF f.reply.ok THEN "store" ELSE "answered",
                              ![t].answer.mask = Default(f.reply.mask, maskPii)]
  /\ UNCHANGED <<configured, maskPii, event, ctrlmMask, reported, latest, logged>>

(* Mutant: the setting is not kept.                                        *)
StoreNothing(t) ==
  /\ caller[t].pc = "store"
  /\ caller' = [caller EXCEPT ![t].pc = "answered"]
  /\ UNCHANGED <<configured, maskPii, event, ctrlmMask, reported, latest, logged>>

(* GetVoiceStatus, line 611                                                *)
StoreMask(t) ==
  /\ caller[t].pc = "store"
  /\ maskPii' = caller[t].answer.mask
  /\ caller' = [caller EXCEPT ![t].pc = "answered"]
  /\ UNCHANGED <<configured, event, ctrlmMask, reported, latest, logged>>

(* The Notify functions.  Those of a server message and of a session end    *)
(* log the payload, or mask it (a second look at _maskPii, for a            *)
(* vrexResponse, may show the same payload); the plugin's sink, which they  *)
(* call, logs what it is given.  The other four log the payload whatever    *)
(* _maskPii is, and the sink only the fields it is called with.            *)
LogEvent ==
  /\ configured /\ event = "idle"
  /\ \/ LogPayload /\ event' = "sink"
     \/ logged' = logged \cup {Clear("implementation", "shown", None)} /\ UNCHANGED event
  /\ UNCHANGED <<configured, maskPii, caller, ctrlmMask, reported, latest>>

LogInSink ==
  /\ event = "sink"
  /\ logged' = logged \cup {Clear("sink", "masked", maskPii)} /\ event' = "idle"
  /\ UNCHANGED <<configured, maskPii, caller, ctrlmMask, reported, latest>>

(* The setting of ctrlm changes.                                           *)
CtrlmTurns ==
  /\ ctrlmMask' = ~ctrlmMask
  /\ caller' = [t \in Caller |-> IF caller[t].pc = "calling"
                                 THEN [caller[t] EXCEPT !.seen = @ \cup {ctrlmMask'}] ELSE caller[t]]
  /\ UNCHANGED <<configured, maskPii, event, reported, latest, logged>>

Next ==
  \/ Configure \/ LogEvent \/ LogInSink \/ CtrlmTurns
  \/ \E t \in Caller :
       \/ \E c \in Calls : Begin(t, c)
       \/ Serve(t) \/ Fail(t) \/ Return(t) \/ AnswerMask(t) \/ StoreMask(t)

Spec == Init /\ [][Next]_vars

-----------------------------------------------------------------------------
(* Every variable has its type.                                            *)
TypeOK ==
  /\ configured \in BOOLEAN /\ maskPii \in BOOLEAN /\ ctrlmMask \in BOOLEAN
  /\ event \in {"idle", "sink"} /\ reported \subseteq BOOLEAN /\ latest \in BOOLEAN
  /\ logged \subseteq [who : {"implementation", "sink"}, what : {"masked", "shown"},
                       mask : BOOLEAN \cup {None}]
  /\ \A t \in Caller :
       /\ caller[t].pc \in {"idle", "calling", "replied", "status", "store", "answered"}
       /\ caller[t].call \in Calls \cup {None} /\ caller[t].executed \in 0 .. 1
       /\ caller[t].seen \subseteq BOOLEAN
       /\ caller[t].answer \in [success : BOOLEAN, mask : BOOLEAN \cup {None},
                                sessionId : {"id", None}, items : 0 .. 32]

(* A method says success only when ctrlm executed its request and said so:  *)
(* a call that failed, or a reply without the label, is none.              *)
SuccessIsCtrlms ==
  \A t \in Caller :
    LET f == caller[t] IN
    f.pc = "answered" /\ f.answer.success /\ f.call.api # "getApiVersionNumber" =>
      f.executed = 1 /\ f.reply.success = TRUE

(* The limits of the interface: at most 16 session types, 32 capabilities.  *)
ListsWithinLimits == \A t \in Caller :
  caller[t].pc = "answered" => caller[t].answer.items <= Limit(caller[t].call)

(* The masking setting in an answer that ctrlm gave is one it had while the *)
(* call was under way, whatever the other callers store in _maskPii.       *)
AnswerIsCurrent ==
  \A t \in Caller :
    LET f == caller[t] IN
    f.pc = "answered" /\ f.reply.mask # None => f.answer.mask \in f.seen

(* The implementation shows a request, a reply, a server message or a       *)
(* session end in its log only if ctrlm has said at some time that payloads *)
(* need not be masked: neither a failed query nor a reply without the       *)
(* setting unmasks.  Of the other four events it shows the payload always.  *)
ClearOnlyIfReported ==
  (\E l \in logged : l.who = "implementation" /\ l.what = "masked") => FALSE \in reported

(* Between the calls of a single caller _maskPii is what ctrlm said last.   *)
CacheIsLatest ==
  (\A t \in Caller : caller[t].pc \in {"idle", "answered"}) => maskPii = latest

(* "PII Masking": while payloads are masked, nobody logs in clear a payload *)
(* that the implementation itself masks.                                   *)
MaskedPayloadsHidden == \A l \in logged : l.what = "masked" => l.mask = FALSE
=============================================================================
