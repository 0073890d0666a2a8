--------------------------- MODULE VoicePayloads ---------------------------
(***************************************************************************)
(* What VoiceControlImplementation.cpp and the sink in VoiceControl.h do   *)
(* to the data that passes through them: the requests that clients make of *)
(* ctrlm, the events of ctrlm on their way to JSON-RPC clients, and the    *)
(* reply of GetVoiceStatus, each converted by whole steps of one flow.     *)
(*                                                                         *)
(* A JSON value is a record of its type and value, a JSON object a         *)
(* function on the labels it has.  Integers keep their widths, which are   *)
(* parameters.  An optional argument is a set of at most one value.  A     *)
(* text is its form and its size.  Arguments that pass as they are         *)
(* (session and transaction ids, URLs, names) are left out.                *)
(***************************************************************************)
EXTENDS Integers, FiniteSets

CONSTANTS
  Modulus64, Modulus32, Modulus8, \* 2^64, 2^32 and 2^8
  Limit,       \* the longest msgPayload that COM-RPC carries (256 K)
  HeaderSize,  \* sizeof(ctrlm_voice_iarm_event_json_t)
  ClientTexts, \* the payloads that a client may send, as texts
  BusEvents,   \* the events that ctrlm may send by itself
  Replies      \* the JSON objects ctrlm may answer GetVoiceStatus with

Unsigned(m) == 0 .. m - 1
Signed64 == -(Modulus64 \div 2) .. (Modulus64 \div 2) - 1
Forms == {"json", "quoted", "plain", "cut"} \* quoted: a JSON string; cut: a JSON text cut off
Text == [form : Forms, size : Nat]

ASSUME PayloadsAssumption ==
  /\ \A m \in {Modulus64, Modulus32, Modulus8} : m \in Nat \ {0} /\ m % 2 = 0
  /\ Limit \in Nat /\ HeaderSize \in Nat
  /\ ClientTexts \subseteq Text /\ \A t \in ClientTexts : t.form = "quoted" => t.size >= 2
  /\ \A e \in BusEvents :
       /\ e.len \in Nat /\ e.nul \in Nat /\ e.nul >= HeaderSize
       /\ \A l \in DOMAIN e.params :
            /\ e.params[l].type = "number" => e.params[l].value \in Signed64
            /\ e.params[l].type = "object" => e.params[l].value \in Nat

VARIABLES
  stage,     \* how far the flow has come
  asked,     \* what the client asked for
  request,   \* the JSON request ctrlm got
  event,     \* the data of the event on the bus
  notified,  \* the call made to the observers
  published, \* the JSON-RPC event sent by the sink
  reply,     \* ctrlm's answer to GetVoiceStatus: the object, if the call succeeded
  response   \* the VoiceStatusResponse a client passes in

flow == <<stage, asked, request, event, notified, published, reply>>
vars == <<flow, response>>

-----------------------------------------------------------------------------
(* Core::JSON::Variant: a value of another type reads as a default.         *)
Json(type, value) == [type |-> type, value |-> value]
HasLabel(params, label) == label \in DOMAIN params
Number(v)  == IF v.type = "number" THEN v.value ELSE 0
Boolean(v) == v.type = "boolean" /\ v.value
String(v)  == IF v.type = "string" THEN v.value ELSE "other"
EmptyText  == [form |-> "plain", size |-> 0]
(* JsonObject::ToString: an empty object is "{}".                          *)
ObjectText(v) == [form |-> "json", size |-> IF v.type = "object" THEN v.value + 2 ELSE 2]

(* static_cast between uint64_t and int64_t, and from int64_t down.         *)
ToSigned(n)   == IF n < Modulus64 \div 2 THEN n ELSE n - Modulus64
ToUnsigned(n) == IF n < 0 THEN n + Modulus64 ELSE n
Narrow(n, m)  == n % m

NumberOf(params, label) == IF HasLabel(params, label) THEN Number(params[label]) ELSE 0
(* Mutant: numbers are not cast at all.                                    *)
Uncast(params, label)   == NumberOf(params, label)
Uint32Of(params, label) == Narrow(NumberOf(params, label), Modulus32)
BooleanOf(params, label) == HasLabel(params, label) /\ Boolean(params[label])

-----------------------------------------------------------------------------
(* Enumerations.  An enumerator is named in capitals, as in the interface,  *)
(* its text is ctrlm's.                                                    *)
DeviceTypes == {"PTT", "FF", "MIC"}
StringToDevice(s) == CASE s = "ptt" -> "PTT" [] s = "ff" -> "FF" [] s = "mic" -> "MIC"
                       [] OTHER -> "PTT"
StringToResult(s) == CASE s = "success" -> "SUCCESS" [] s = "error" -> "ERROR"
                       [] s = "abort" -> "ABORT" [] s = "shortUtterance" -> "SHORT_UTTERANCE"
                       [] OTHER -> "ERROR"

(* voiceSessionRequestTypeToString                                         *)
TypeToString == [
  PTT_TRANSCRIPTION  |-> "ptt_transcription",  PTT_AUDIO_FILE     |-> "ptt_audio_file",
  FF_TRANSCRIPTION   |-> "ff_transcription",   MIC_TRANSCRIPTION  |-> "mic_transcription",
  MIC_AUDIO_FILE     |-> "mic_audio_file",     MIC_STREAM_DEFAULT |-> "mic_stream_default",
  MIC_STREAM_SINGLE  |-> "mic_stream_single",  MIC_STREAM_MULTI   |-> "mic_stream_multi",
  MIC_FACTORY_TEST   |-> "mic_factory_test",
  MIC_TAP_STREAM_SINGLE |-> "mic_tap_stream_single",
  MIC_TAP_STREAM_MULTI  |-> "mic_tap_stream_multi"]

(* VoiceSessionByText translates its device, PTT if there is none.          *)
(* Mutant: a far-field session is asked for as a push-to-talk one.          *)
TranscriptionOfPtt(device) == IF device = {"MIC"} THEN "MIC_TRANSCRIPTION" ELSE "PTT_TRANSCRIPTION"
TranscriptionType(device) ==
  CASE device = {"FF"} -> "FF_TRANSCRIPTION" [] device = {"MIC"} -> "MIC_TRANSCRIPTION"
    [] OTHER -> "PTT_TRANSCRIPTION"

-----------------------------------------------------------------------------
(* SendVoiceMessage: zero and empty arguments are left out.  A payload that *)
(* is JSON goes as that value, any other as a JSON string; String() of the *)
(* value is the text again, without the quotes of a JSON string.           *)
JsonText(t) == IF t.form = "quoted" THEN [form |-> "plain", size |-> t.size - 2] ELSE t

(* Mutant: created is sent as a narrow number.                             *)
MessageNarrow(created, payload) ==
  [created |-> {Narrow(c, Modulus32) : c \in created \ {0}},
   msgPayload |-> {JsonText(t) : t \in {p \in payload : p.size > 0}}]
MessageRequest(created, payload) ==
  [created |-> {ToSigned(c) : c \in created \ {0}},
   msgPayload |-> {JsonText(t) : t \in {p \in payload : p.size > 0}}]

(* The device that a type of request, by its name, is for.                 *)
DeviceOf(type) ==
  CASE type \in {"PTT_TRANSCRIPTION", "PTT_AUDIO_FILE"} -> "PTT"
    [] type = "FF_TRANSCRIPTION" -> "FF"
    [] OTHER -> "MIC"

Optional(S) == {{}} \cup {{x} : x \in S}
Begin(s, a, r) ==
  /\ stage = "idle" /\ stage' = s /\ asked' = a /\ request' = r
  /\ UNCHANGED <<event, notified, published, reply, response>>

SendVoiceMessage ==
  \E created \in Optional(Unsigned(Modulus64)), payload \in Optional(ClientTexts) :
    Begin("message", [created |-> created, msgPayload |-> payload],
                     MessageRequest(created, payload))

VoiceSessionByText ==
  \E device \in Optional(DeviceTypes) :
    Begin("session", [device |-> device], [type |-> TypeToString[TranscriptionType(device)]])

VoiceSessionRequest ==
  \E type \in DOMAIN TypeToString :
    Begin("session", [device |-> {DeviceOf(type)}], [type |-> TypeToString[type]])

-----------------------------------------------------------------------------
(* ctrlm and the bus.  What ctrlm sends back for a request, it takes from   *)
(* the request; what it sends by itself is one of BusEvents.               *)
WellFormed(id, params) ==
  [id |-> id, owner |-> "ctrlm", revision |-> TRUE, len |-> HeaderSize + 2,
   nul |-> HeaderSize + 1, params |-> params]

Put(e) == event' = e /\ stage' = "event"
          /\ UNCHANGED <<asked, request, notified, published, reply, response>>

EchoMessage ==
  /\ stage = "message"
  /\ LET has == {l \in {"created", "msgPayload"} : request[l] # {}}
         Value(l) == CHOOSE v \in request[l] : TRUE
     IN  Put(WellFormed("SERVER_MESSAGE",
           [l \in has |-> Json(IF l = "created" THEN "number" ELSE "text", Value(l))]))

DeviceString(type) ==
  CASE type \in {"ptt_transcription", "ptt_audio_file"} -> "ptt"
    [] type = "ff_transcription" -> "ff"
    [] OTHER -> "mic"
BeginSession ==
  /\ stage = "session"
  /\ Put(WellFormed("SESSION_BEGIN",
       [l \in {"deviceType"} |-> Json("string", DeviceString(request.type))]))

CtrlmSends == stage = "idle" /\ \E e \in BusEvents : Put(e)

-----------------------------------------------------------------------------
(* iarmEventHandler.  The data is used only if it is ctrlm's, longer than  *)
(* the header and of the right revision; its last byte is made a NUL.      *)
KnownEvents == {"SESSION_BEGIN", "STREAM_BEGIN", "KEYWORD_VERIFICATION", "SERVER_MESSAGE",
                "STREAM_END", "SESSION_END"}
Accepted(e) == e.owner = "ctrlm" /\ e.len > HeaderSize /\ e.revision /\ e.id \in KnownEvents

(* Mutant: the data is taken to be terminated already.                     *)
TrustTerminator(e) == e.nul
Terminated(e) == IF e.nul < e.len THEN e.nul ELSE e.len - 1

ResultLabels == {"success", "error", "abort", "shortUtterance", "stbStats"}

(* checkRestrictLimit, for OnServerMessage.msgPayload.                     *)
Clamped(t) == IF t.size > Limit
                THEN [form |-> IF t.form = "json" THEN "cut" ELSE t.form, size |-> Limit]
                ELSE t

(* NotifySessionBegin ... NotifySessionEnd: the call each event becomes.    *)
ObserverCall(id, params) ==
  CASE id = "SESSION_BEGIN" ->
         [kind |-> id, remoteId |-> Uint32Of(params, "remoteId"),
          deviceType |-> IF HasLabel(params, "deviceType")
                           THEN StringToDevice(String(params["deviceType"])) ELSE "PTT",
          keywordVerification |-> BooleanOf(params, "keywordVerification")]
    [] id = "STREAM_BEGIN" ->
         [kind |-> id, remoteId |-> Uint32Of(params, "remoteId")]
    [] id = "KEYWORD_VERIFICATION" ->
         [kind |-> id, remoteId |-> Uint32Of(params, "remoteId"),
          verified |-> BooleanOf(params, "verified")]
    [] id = "SERVER_MESSAGE" ->
         [kind |-> id, created |-> ToUnsigned(NumberOf(params, "created")),
          msgPayload |-> IF HasLabel(params, "msgPayload")
                           THEN Clamped(params["msgPayload"].value) ELSE EmptyText]
    [] id = "STREAM_END" ->
         [kind |-> id, remoteId |-> Uint32Of(params, "remoteId"),
          reason |-> Narrow(NumberOf(params, "reason"), Modulus8)]
    [] id = "SESSION_END" ->
         [kind |-> id, remoteId |-> Uint32Of(params, "remoteId"),
          result |-> IF HasLabel(params, "result")
                       THEN StringToResult(String(params["result"])) ELSE "ERROR",
          objects |-> [l \in ResultLabels |->
                         IF HasLabel(params, l) THEN ObjectText(params[l]) ELSE EmptyText]]

(* A text that the NUL cuts off is not an object any more: how many of its  *)
(* labels the parser has found by then is open.                            *)
Handle ==
  /\ stage = "event"
  /\ IF Accepted(event)
       THEN /\ stage' = "notified"
            /\ \E labels \in IF event.nul < event.len THEN {DOMAIN event.params}
                                                       ELSE {DOMAIN event.params, {}} :
                 notified' = [call |-> ObserverCall(event.id, [l \in labels |-> event.params[l]]),
                              end |-> Terminated(event)]
       ELSE stage' = "dropped" /\ UNCHANGED notified
  /\ UNCHANGED <<asked, request, event, published, reply, response>>

-----------------------------------------------------------------------------
(* The sink.  OnSessionEnd puts the objects into the event as they are,     *)
(* unquoted; the other calls pass on unchanged.                            *)

(* Mutant: what is set is included, empty or not.                          *)
IncludedIfSet(objects) == ResultLabels
Included(objects) == {l \in ResultLabels : objects[l].size > 0}

JsonRpcEvent(call) ==
  IF call.kind = "SESSION_END"
    THEN [kind |-> call.kind, result |-> call.result, serverStats |-> call.result # "ABORT",
          objects |-> [l \in Included(call.objects) |-> call.objects[l]]]
    ELSE call

Publish ==
  /\ stage = "notified" /\ stage' = "published"
  /\ published' = JsonRpcEvent(notified.call)
  /\ UNCHANGED <<asked, request, event, notified, reply, response>>

-----------------------------------------------------------------------------
(* GetVoiceStatus, into a response that may be left from an earlier call.   *)
(* maskPii falls back on a member, see VoiceRequests.                      *)
StatusFields == {"urlPtt", "urlHf", "urlMicTap", "prv", "wwFeedback", "ptt", "ff", "mic",
                 "micTap", "capabilities", "success"}
(* Mutant: a tap that is not reported any more is left in the response.     *)
FilledButTap(r) ==
  [f \in StatusFields |-> IF f \in DOMAIN r THEN r[f]
                          ELSE IF f = "micTap" THEN response[f] ELSE "default"]
(* Every field is given the value of its label, or its default.            *)
Filled(r) == [f \in StatusFields |-> IF f \in DOMAIN r THEN r[f] ELSE "default"]
(* The fields that are cleared when the call fails.                        *)
Cleared == {"urlPtt", "urlHf", "urlMicTap", "prv", "wwFeedback", "ptt", "ff", "mic",
            "micTap", "capabilities", "success"}

GetVoiceStatus ==
  /\ stage = "idle" /\ stage' = "answered"
  /\ \/ \E r \in Replies : reply' = {r} /\ response' = Filled(r)
     \/ /\ reply' = {}
        /\ response' = [f \in StatusFields |-> IF f \in Cleared THEN "default" ELSE response[f]]
  /\ UNCHANGED <<asked, request, event, notified, published>>

(* The flow ends; the client keeps the response.                           *)
Nothing == [kind |-> "none"]
Finish ==
  /\ stage \in {"published", "dropped", "answered"}
  /\ stage' = "idle" /\ asked' = Nothing /\ request' = Nothing /\ event' = Nothing
  /\ notified' = Nothing /\ published' = Nothing /\ reply' = {}
  /\ UNCHANGED response

Init ==
  /\ stage = "idle" /\ asked = Nothing /\ request = Nothing /\ event = Nothing
  /\ notified = Nothing /\ published = Nothing /\ reply = {}
  /\ response = [f \in StatusFields |-> "default"]

Next ==
  \/ SendVoiceMessage \/ VoiceSessionByText \/ VoiceSessionRequest
  \/ EchoMessage \/ BeginSession \/ CtrlmSends
  \/ Handle \/ Publish \/ GetVoiceStatus \/ Finish

Spec == Init /\ [][Next]_vars

-----------------------------------------------------------------------------
Handed == stage \in {"notified", "published"}
Call   == notified.call
Asks(argument) == argument \in DOMAIN asked
Whole  == event.nul < event.len
HasNumber(label, range) ==
  HasLabel(event.params, label) /\ event.params[label].type = "number"
  /\ event.params[label].value \in range

(* The flow moves through its stages, and whatever number ctrlm sends, the  *)
(* observers are called with one of the type of the parameter.             *)
RangeOf == [remoteId |-> Unsigned(Modulus32), reason |-> Unsigned(Modulus8),
            created |-> Unsigned(Modulus64)]
TypeOK ==
  /\ stage \in {"idle", "message", "session", "event", "notified", "published", "dropped",
                "answered"}
  /\ Handed => \A l \in DOMAIN RangeOf \cap DOMAIN Call : Call[l] \in RangeOf[l]

(* A message that ctrlm echoes comes back as it was sent, through the JSON  *)
(* of SendVoiceMessage and of onServerMessage and two casts: created is    *)
(* the same uint64_t, and a payload that COM-RPC can carry the same text,  *)
(* less the quotes of a JSON string; of a longer one the first Limit       *)
(* characters come back, and the text is known to be cut.                  *)
MessageEchoed ==
  Handed /\ Asks("created") =>
    /\ Call.created \in asked.created \cup {0} /\ asked.created \subseteq {Call.created}
    /\ \A t \in asked.msgPayload :
         LET size == IF t.form = "quoted" THEN t.size - 2 ELSE t.size IN
         IF size <= Limit
           THEN Call.msgPayload.size = size /\ (t.form = "json" /\ size > 0 => Call.msgPayload = t)
           ELSE Call.msgPayload.size = Limit /\ Call.msgPayload.form # "json"

(* A session that a client starts, by text for a device or with a type of   *)
(* request, begins as one of that device, although the device goes out as  *)
(* part of a request type and comes back as a device type, through three   *)
(* tables.                                                                 *)
DeviceKept ==
  Handed /\ Asks("device") => asked.device \subseteq {Call.deviceType}

(* The numbers of an event that fit the parameter reach the observers       *)
(* unchanged; a number that is missing or is none arrives as 0.            *)
NumbersKept ==
  Handed /\ Whole => \A l \in {"remoteId", "reason"} \cap DOMAIN Call :
    /\ HasNumber(l, RangeOf[l]) => Call[l] = event.params[l].value
    /\ ~HasNumber(l, Signed64) => Call[l] = 0

(* A JSON-RPC onSessionEnd has exactly the result objects that ctrlm sent,  *)
(* empty ones included, and what it includes unquoted is never empty: an   *)
(* empty string is how an object that is missing crosses COM-RPC.          *)
ObjectsPassThrough ==
  stage = "published" /\ published.kind = "SESSION_END" =>
    /\ \A l \in DOMAIN published.objects :
         published.objects[l].form = "json" /\ published.objects[l].size >= 2
    /\ Whole => DOMAIN published.objects = DOMAIN event.params \cap ResultLabels

(* The payload is read up to a NUL that is in the data of the event, and    *)
(* not in its header.                                                      *)
TextInsideData == Handed => notified.end \in HeaderSize .. event.len - 1

(* A response has only what ctrlm answered this call, whatever call it was  *)
(* filled by before, and nothing when the call failed.                     *)
NothingStale ==
  stage = "answered" => \A f \in StatusFields :
    response[f] # "default" => \E r \in reply : f \in DOMAIN r /\ response[f] = r[f]
=============================================================================
