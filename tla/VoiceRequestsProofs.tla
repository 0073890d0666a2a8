------------------------ MODULE VoiceRequestsProofs ------------------------
(***************************************************************************)
(* Proofs about VoiceRequests, for any number of callers and any calls.     *)
(* The invariant says what a method knows of ctrlm's setting at each point, *)
(* and that nobody unmasks but on ctrlm's word.                            *)
(***************************************************************************)
EXTENDS VoiceRequests, TLAPS

Tri == BOOLEAN \cup {None}
Reply == [ok : BOOLEAN, mask : Tri, success : Tri, sessionId : {"id", None}, items : Nat]
Frame == [pc : {"idle", "calling", "replied", "status", "store", "answered"},
          call : Calls \cup {None}, seen : SUBSET BOOLEAN, executed : {0, 1}, reply : Reply,
          answer : [success : BOOLEAN, mask : Tri, sessionId : {"id", None}, items : Nat]]

TypeInv ==
  /\ ctrlmMask \in BOOLEAN /\ maskPii \in BOOLEAN
  /\ caller \in [Caller -> Frame]

(* A method that waits for ctrlm has seen its setting; what it replied has   *)
(* been seen and reported; a call that failed brought nothing.             *)
ReplyInv ==
  \A t \in Caller :
    LET f == caller[t] IN
    /\ f.pc = "calling" => f.executed = 0 /\ f.reply = NoReply /\ ctrlmMask \in f.seen
    /\ f.reply.ok => f.executed = 1
    /\ ~f.reply.ok => f.reply = NoReply
    /\ f.reply.mask # None => /\ f.reply.mask \in f.seen \cap reported
                              /\ f.call.api = "getVoiceStatus"

AnswerInv ==
  \A t \in Caller :
    LET f == caller[t] IN
    /\ f.pc \in {"status", "store", "answered"} =>
         /\ f.answer.success /\ f.call.api # "getApiVersionNumber" => f.reply.ok /\ f.reply.success = TRUE
         /\ f.answer.items <= Limit(f.call)
    /\ f.pc = "store" => f.answer.mask \in BOOLEAN /\ (f.answer.mask = FALSE => FALSE \in reported)
    /\ f.pc \in {"store", "answered"} /\ f.reply.mask # None => f.answer.mask = f.reply.mask

MaskInv ==
  /\ maskPii = FALSE => FALSE \in reported
  /\ ClearOnlyIfReported

RequestInv == TypeInv /\ ReplyInv /\ AnswerInv /\ MaskInv

-----------------------------------------------------------------------------
(* The invariant holds initially.                                          *)
LEMMA RequestInit == Init => RequestInv
<1> SUFFICES ASSUME Init PROVE RequestInv
  OBVIOUS
<1> USE ConstantsAssumption DEF ConstantsAssumption, Init, Idle, NewFrame, NoReply, NoAnswer
<1>1. TypeInv
  BY DEF TypeInv, Frame, Reply, Tri
<1>2. ReplyInv /\ AnswerInv
  BY DEF ReplyInv, AnswerInv
<1>3. MaskInv
  BY DEF MaskInv, ClearOnlyIfReported
<1> QED BY <1>1, <1>2, <1>3 DEF RequestInv

(* A frame that changes leaves the others alone: what has to be shown of a   *)
(* step of one caller.                                                     *)
LEMMA OneFrame ==
  ASSUME RequestInv, NEW t \in Caller, NEW g \in Frame, caller' = [caller EXCEPT ![t] = g],
         ctrlmMask' = ctrlmMask, maskPii' \in BOOLEAN, reported \subseteq reported',
         g.pc = "calling" => g.executed = 0 /\ g.reply = NoReply /\ ctrlmMask \in g.seen,
         g.reply.ok => g.executed = 1,
         ~g.reply.ok => g.reply = NoReply,
         g.reply.mask # None => g.reply.mask \in g.seen \cap reported' /\ g.call.api = "getVoiceStatus",
         g.pc \in {"status", "store", "answered"} =>
           /\ g.answer.success /\ g.call.api # "getApiVersionNumber" => g.reply.ok /\ g.reply.success = TRUE
           /\ g.answer.items <= Limit(g.call),
         g.pc = "store" => g.answer.mask \in BOOLEAN /\ (g.answer.mask = FALSE => FALSE \in reported'),
         g.pc \in {"store", "answered"} /\ g.reply.mask # None => g.answer.mask = g.reply.mask
  PROVE  TypeInv' /\ ReplyInv' /\ AnswerInv'
<1>1. caller'[t] = g /\ \A u \in Caller : u # t => caller'[u] = caller[u]
  BY DEF RequestInv, TypeInv
<1>2. TypeInv'
  BY DEF RequestInv, TypeInv
<1>3. ReplyInv'
  <2> SUFFICES ASSUME NEW u \in Caller
               PROVE  LET f == caller'[u] IN
                      /\ f.pc = "calling" => f.executed = 0 /\ f.reply = NoReply /\ ctrlmMask' \in f.seen
                      /\ f.reply.ok => f.executed = 1
                      /\ ~f.reply.ok => f.reply = NoReply
                      /\ f.reply.mask # None => /\ f.reply.mask \in f.seen \cap reported'
                                                /\ f.call.api = "getVoiceStatus"
    BY DEF ReplyInv
  <2>1. CASE u = t
    BY <1>1, <2>1
  <2>2. CASE u # t
    BY <1>1, <2>2 DEF RequestInv, ReplyInv
  <2> QED BY <2>1, <2>2
<1>4. AnswerInv'
  <2> SUFFICES ASSUME NEW u \in Caller
               PROVE  LET f == caller'[u] IN
                      /\ f.pc \in {"status", "store", "answered"} =>
                           /\ f.answer.success /\ f.call.api # "getApiVersionNumber" =>
                                f.reply.ok /\ f.reply.success = TRUE
                           /\ f.answer.items <= Limit(f.call)
                      /\ f.pc = "store" =>
                           f.answer.mask \in BOOLEAN /\ (f.answer.mask = FALSE => FALSE \in reported')
                      /\ f.pc \in {"store", "answered"} /\ f.reply.mask # None =>
                           f.answer.mask = f.reply.mask
    BY DEF AnswerInv, Limit
  <2>1. CASE u = t
    BY <1>1, <2>1
  <2>2. CASE u # t
    BY <1>1, <2>2 DEF RequestInv, AnswerInv
  <2> QED BY <2>1, <2>2
<1> QED BY <1>2, <1>3, <1>4

(* A step that leaves the frames alone, whatever is reported.              *)
LEMMA NoFrame ==
  ASSUME RequestInv, UNCHANGED <<caller, ctrlmMask>>, maskPii' \in BOOLEAN, reported \subseteq reported'
  PROVE  TypeInv' /\ ReplyInv' /\ AnswerInv'
<1>1. TypeInv'
  BY DEF RequestInv, TypeInv
<1>2. ReplyInv'
  BY DEF RequestInv, ReplyInv
<1>3. AnswerInv'
  BY DEF RequestInv, AnswerInv, Limit
<1> QED BY <1>1, <1>2, <1>3

(* What logs a payload, or does not, asks for the setting.                  *)
LEMMA LogStep ==
  ASSUME RequestInv, UNCHANGED <<maskPii, reported>>, LogPayload \/ UNCHANGED logged
  PROVE  MaskInv'
<1>1. CASE UNCHANGED logged
  BY <1>1 DEF RequestInv, MaskInv, ClearOnlyIfReported
<1>2. CASE LogPayload /\ maskPii = FALSE
  BY <1>2 DEF LogPayload, RequestInv, MaskInv, ClearOnlyIfReported
<1>3. CASE LogPayload /\ maskPii # FALSE
  BY <1>3 DEF LogPayload, RequestInv, TypeInv, MaskInv, ClearOnlyIfReported
<1> QED BY <1>1, <1>2, <1>3

(* Configure, the events and ctrlm itself.                                 *)
LEMMA OtherSteps ==
  ASSUME RequestInv, Configure \/ LogEvent \/ LogInSink \/ CtrlmTurns
  PROVE  RequestInv'
<1> USE ConstantsAssumption DEF ConstantsAssumption
<1>1. ASSUME NEW mask \in {ctrlmMask, None}, Report(mask), Configured(Default(mask, TRUE)),
             UNCHANGED <<caller, event, ctrlmMask, logged>>
      PROVE  RequestInv'
  <2>1. ctrlmMask \in BOOLEAN
    BY DEF RequestInv, TypeInv
  <2>2. maskPii' \in BOOLEAN /\ reported \subseteq reported' /\ (maskPii' = FALSE => FALSE \in reported')
    BY <1>1, <2>1 DEF Report, Configured, Default
  <2>3. MaskInv'
    BY <1>1, <2>2 DEF RequestInv, MaskInv, ClearOnlyIfReported
  <2> QED BY <1>1, <2>2, <2>3, NoFrame DEF RequestInv
<1>2. ASSUME Configured(TRUE), UNCHANGED <<caller, event, ctrlmMask, logged, reported>>
      PROVE  RequestInv'
  <2>1. maskPii' = TRUE
    BY <1>2 DEF Configured
  <2>2. MaskInv'
    BY <1>2, <2>1 DEF RequestInv, MaskInv, ClearOnlyIfReported
  <2> QED BY <1>2, <2>1, <2>2, NoFrame DEF RequestInv
<1>3. CASE LogEvent
  <2>1. CASE LogPayload
    <3>1. maskPii' \in BOOLEAN /\ MaskInv'
      BY <1>3, <2>1, LogStep DEF LogEvent, RequestInv, TypeInv
    <3> QED BY <1>3, <3>1, NoFrame DEF LogEvent, RequestInv
  <2>2. CASE logged' = logged \cup {Clear("implementation", "shown", None)}
    <3>1. Clear("implementation", "shown", None).what # "masked"
      BY DEF Clear
    <3>2. (\E l \in logged' : l.who = "implementation" /\ l.what = "masked") =>
             \E l \in logged : l.who = "implementation" /\ l.what = "masked"
      BY <2>2, <3>1
    <3>3. maskPii' \in BOOLEAN /\ MaskInv'
      BY <1>3, <3>2 DEF LogEvent, RequestInv, TypeInv, MaskInv, ClearOnlyIfReported
    <3> QED BY <1>3, <3>3, NoFrame DEF LogEvent, RequestInv
  <2> QED BY <1>3, <2>1, <2>2 DEF LogEvent
<1>4. CASE LogInSink
  <2>1. maskPii' \in BOOLEAN
    BY <1>4 DEF LogInSink, RequestInv, TypeInv
  <2>2. MaskInv'
    <3>1. Clear("sink", "masked", maskPii).who # "implementation"
      BY DEF Clear
    <3>2. (\E l \in logged' : l.who = "implementation" /\ l.what = "masked") =>
             \E l \in logged : l.who = "implementation" /\ l.what = "masked"
      BY <1>4, <3>1 DEF LogInSink
    <3> QED BY <1>4, <3>2 DEF LogInSink, RequestInv, MaskInv, ClearOnlyIfReported
  <2> QED BY <1>4, <2>1, <2>2, NoFrame DEF LogInSink, RequestInv
<1>5. CASE CtrlmTurns
  <2>1. ctrlmMask' \in BOOLEAN /\ UNCHANGED <<maskPii, reported, logged>>
    BY <1>5 DEF CtrlmTurns, RequestInv, TypeInv
  <2>2. \A t \in Caller : /\ caller'[t] \in Frame /\ caller[t] \in Frame
                          /\ caller[t].pc = "calling" => ctrlmMask' \in caller'[t].seen
                          /\ caller[t].seen \subseteq caller'[t].seen
                          /\ caller'[t].pc = caller[t].pc /\ caller'[t].call = caller[t].call
                          /\ caller'[t].executed = caller[t].executed
                          /\ caller'[t].reply = caller[t].reply
                          /\ caller'[t].answer = caller[t].answer
    <3> SUFFICES ASSUME NEW t \in Caller
                 PROVE  /\ caller'[t] \in Frame /\ caller[t] \in Frame
                        /\ caller[t].pc = "calling" => ctrlmMask' \in caller'[t].seen
                        /\ caller[t].seen \subseteq caller'[t].seen
                        /\ caller'[t].pc = caller[t].pc /\ caller'[t].call = caller[t].call
                        /\ caller'[t].executed = caller[t].executed
                        /\ caller'[t].reply = caller[t].reply
                        /\ caller'[t].answer = caller[t].answer
      OBVIOUS
    <3>1. caller[t] \in Frame
      BY DEF RequestInv, TypeInv
    <3>2. CASE caller[t].pc = "calling"
      <4>1. caller'[t] = [caller[t] EXCEPT !.seen = caller[t].seen \cup {ctrlmMask'}]
        BY <1>5, <3>2 DEF CtrlmTurns
      <4>2. \A f \in Frame, b \in BOOLEAN :
              LET g == [f EXCEPT !.seen = f.seen \cup {b}] IN
              /\ g \in Frame /\ b \in g.seen /\ f.seen \subseteq g.seen /\ g.pc = f.pc
              /\ g.call = f.call /\ g.executed = f.executed /\ g.reply = f.reply /\ g.answer = f.answer
        BY DEF Frame
      <4> QED BY <2>1, <3>1, <4>1, <4>2
    <3>3. CASE caller[t].pc # "calling"
      BY <1>5, <3>1, <3>3 DEF CtrlmTurns
    <3> QED BY <3>2, <3>3
  <2>3. TypeInv'
    <3>1. DOMAIN caller' = Caller /\ \A t \in Caller : caller'[t] \in Frame
      BY <1>5, <2>2 DEF CtrlmTurns
    <3>2. caller' \in [Caller -> Frame]
      BY <1>5, <3>1 DEF CtrlmTurns
    <3> QED BY <2>1, <3>2 DEF RequestInv, TypeInv
  <2>4. ReplyInv'
    BY <2>1, <2>2 DEF RequestInv, ReplyInv
  <2>5. AnswerInv'
    BY <2>1, <2>2 DEF RequestInv, AnswerInv, Limit
  <2>6. MaskInv'
    BY <2>1 DEF RequestInv, MaskInv, ClearOnlyIfReported
  <2> QED BY <2>3, <2>4, <2>5, <2>6 DEF RequestInv
<1> QED BY <1>1, <1>2, <1>3, <1>4, <1>5 DEF Configure

(* The steps of a method.                                                  *)
LEMMA BeginStep ==
  ASSUME RequestInv, NEW t \in Caller, NEW c \in Calls, Begin(t, c)
  PROVE  RequestInv'
<1> USE ConstantsAssumption DEF ConstantsAssumption
<1> DEFINE version == c.api = "getApiVersionNumber"
           g == NewFrame(IF version THEN "answered" ELSE "calling", c, {ctrlmMask}, version)
<1>1. caller' = [caller EXCEPT ![t] = g]
  BY Zenon DEF Begin
<1>2. ctrlmMask \in BOOLEAN /\ maskPii \in BOOLEAN
  BY DEF RequestInv, TypeInv
<1>3. g \in Frame
  BY <1>2 DEF NewFrame, Frame, Reply, Tri, NoReply, NoAnswer
<1>4. UNCHANGED <<maskPii, ctrlmMask, reported>> /\ (LogPayload \/ UNCHANGED logged)
  BY DEF Begin
<1>5. /\ g.pc = "calling" => g.executed = 0 /\ g.reply = NoReply /\ ctrlmMask \in g.seen
      /\ ~g.reply.ok /\ g.reply = NoReply /\ g.reply.mask = None
      /\ g.answer.success => g.call.api = "getApiVersionNumber"
      /\ g.answer.items = 0 /\ g.pc \notin {"store"}
  BY DEF NewFrame, NoReply, NoAnswer
<1>6. g.answer.items <= Limit(g.call)
  BY <1>5 DEF Limit
<1> HIDE DEF g
<1>7. TypeInv' /\ ReplyInv' /\ AnswerInv'
  BY <1>1, <1>2, <1>3, <1>4, <1>5, <1>6, OneFrame
<1> QED BY <1>4, <1>7, LogStep DEF RequestInv

LEMMA ServeStep ==
  ASSUME RequestInv, NEW t \in Caller, Serve(t)
  PROVE  RequestInv'
<1> USE ConstantsAssumption DEF ConstantsAssumption
<1>1. PICK reply \in Replies(caller[t].call) :
        /\ caller' = [caller EXCEPT ![t].pc = "replied", ![t].reply = reply, ![t].executed = @ + 1]
        /\ Report(reply.mask)
  BY DEF Serve
<1>2. caller[t] \in Frame /\ caller[t].executed = 0 /\ ctrlmMask \in caller[t].seen
      /\ ctrlmMask \in BOOLEAN /\ maskPii \in BOOLEAN
  BY DEF Serve, RequestInv, TypeInv, ReplyInv
<1>3. /\ reply \in Reply /\ reply.ok = TRUE
      /\ reply.mask # None => reply.mask = ctrlmMask /\ caller[t].call.api = "getVoiceStatus"
  <2> DEFINE call == caller[t].call
             masks == IF call.api = "getVoiceStatus" THEN {ctrlmMask, None} ELSE {None}
             ids == IF RequestOf(call).call = "sessionRequest" THEN {"id", None} ELSE {None}
             lengths == IF call.api \in {"getVoiceStatus", "getVoiceSessionTypes"} THEN Items ELSE {0}
  <2>1. Replies(call) = [ok : {TRUE}, success : {TRUE, FALSE, None}, mask : masks,
                         sessionId : ids, items : lengths]
    BY DEF Replies
  <2>2. /\ masks \subseteq Tri /\ ids \subseteq {"id", None} /\ lengths \subseteq Nat
        /\ \A m \in masks : m # None => m = ctrlmMask /\ call.api = "getVoiceStatus"
    BY <1>2 DEF Tri
  <2> HIDE DEF call, masks, ids, lengths
  <2>3. reply \in [ok : {TRUE}, success : {TRUE, FALSE, None}, mask : masks,
                   sessionId : ids, items : lengths]
    BY <1>1, <2>1 DEF call
  <2>4. reply \in Reply /\ reply.ok = TRUE /\ reply.mask \in masks
    BY <2>2, <2>3 DEF Reply, Tri
  <2> QED BY <2>2, <2>4 DEF call
<1> DEFINE g == [caller[t] EXCEPT !.pc = "replied", !.reply = reply, !.executed = 1]
<1>4. caller' = [caller EXCEPT ![t] = g]
  BY <1>1, <1>2 DEF RequestInv, TypeInv, Frame
<1>5. /\ g \in Frame /\ g.pc = "replied" /\ g.executed = 1 /\ g.reply = reply
      /\ g.seen = caller[t].seen /\ g.call = caller[t].call
  BY <1>2, <1>3 DEF Frame
<1>6. reported' = reported \cup ({reply.mask} \ {None}) /\ UNCHANGED <<maskPii, ctrlmMask, logged>>
  BY <1>1 DEF Serve, Report
<1> HIDE DEF g
<1>7. TypeInv' /\ ReplyInv' /\ AnswerInv'
  BY <1>2, <1>3, <1>4, <1>5, <1>6, OneFrame
<1>8. MaskInv'
  BY <1>6 DEF RequestInv, MaskInv, ClearOnlyIfReported
<1> QED BY <1>7, <1>8 DEF RequestInv

LEMMA FailStep ==
  ASSUME RequestInv, NEW t \in Caller, Fail(t)
  PROVE  RequestInv'
<1> USE ConstantsAssumption DEF ConstantsAssumption
<1>1. PICK n \in {0, 1} : caller' = [caller EXCEPT ![t].pc = "replied", ![t].executed = @ + n]
  BY DEF Fail
<1>2. /\ caller[t] \in Frame /\ caller[t].executed = 0 /\ caller[t].reply = NoReply
      /\ maskPii \in BOOLEAN
  BY DEF Fail, RequestInv, TypeInv, ReplyInv
<1> DEFINE g == [caller[t] EXCEPT !.pc = "replied", !.executed = n]
<1>3. caller' = [caller EXCEPT ![t] = g]
  <2>1. caller' = [caller EXCEPT ![t] = [caller[t] EXCEPT !.pc = "replied",
                                                         !.executed = caller[t].executed + n]]
    BY <1>1 DEF RequestInv, TypeInv
  <2>2. caller[t].executed + n = n
    BY <1>2
  <2> QED BY <2>1, <2>2
<1>4. g \in Frame /\ g.pc = "replied" /\ g.reply = NoReply
  BY <1>2 DEF Frame
<1>5. UNCHANGED <<maskPii, ctrlmMask, reported, logged>>
  BY DEF Fail
<1>6. ~g.reply.ok /\ g.reply.mask = None
  BY <1>4 DEF NoReply
<1> HIDE DEF g
<1>7. TypeInv' /\ ReplyInv' /\ AnswerInv'
  BY <1>2, <1>3, <1>4, <1>5, <1>6, OneFrame
<1> QED BY <1>5, <1>7, LogStep DEF RequestInv

LEMMA ReturnStep ==
  ASSUME RequestInv, NEW t \in Caller, Return(t)
  PROVE  RequestInv'
<1> USE ConstantsAssumption DEF ConstantsAssumption
<1> DEFINE f == caller[t]
           a == Answer(f.call, f.reply)
           g == [f EXCEPT !.pc = IF f.call.api = "getVoiceStatus" THEN "status" ELSE "answered",
                          !.answer = a]
<1>1. f \in Frame /\ maskPii \in BOOLEAN
  BY DEF RequestInv, TypeInv
<1>2. /\ f.reply.ok \in BOOLEAN /\ f.reply.success \in Tri /\ f.reply.items \in Nat
      /\ f.reply.sessionId \in {"id", None}
  BY <1>1 DEF Frame, Reply
<1>3. caller' = [caller EXCEPT ![t] = g]
  BY <1>1 DEF Return, RequestInv, TypeInv, Frame
<1>4. Limit(f.call) \in Nat
  BY DEF Limit
<1>5. a.items \in Nat /\ a.items <= Limit(f.call)
  BY <1>2, <1>4 DEF Answer, Cut
<1>6. /\ a \in [success : BOOLEAN, mask : Tri, sessionId : {"id", None}, items : Nat]
      /\ a.success => f.reply.ok /\ f.reply.success = TRUE
  BY <1>2, <1>5 DEF Answer, Id, Default, Tri
<1>7. /\ g \in Frame /\ g.pc \in {"status", "answered"} /\ g.answer = a /\ g.reply = f.reply
      /\ g.executed = f.executed /\ g.seen = f.seen /\ g.call = f.call
      /\ g.pc = "answered" => f.call.api # "getVoiceStatus"
  BY <1>1, <1>6 DEF Frame
<1>8. /\ f.reply.ok => f.executed = 1
      /\ ~f.reply.ok => f.reply = NoReply
      /\ f.reply.mask # None => f.reply.mask \in f.seen \cap reported /\ f.call.api = "getVoiceStatus"
  BY DEF RequestInv, ReplyInv
<1>9. UNCHANGED <<maskPii, ctrlmMask, reported>> /\ (LogPayload \/ UNCHANGED logged)
  BY DEF Return
<1> HIDE DEF a, g
<1>10. TypeInv' /\ ReplyInv' /\ AnswerInv'
  BY <1>1, <1>3, <1>5, <1>6, <1>7, <1>8, <1>9, OneFrame
<1> QED BY <1>9, <1>10, LogStep DEF RequestInv

LEMMA MaskSteps ==
  ASSUME RequestInv, NEW t \in Caller, AnswerMask(t) \/ StoreMask(t)
  PROVE  RequestInv'
<1> USE ConstantsAssumption DEF ConstantsAssumption
<1> DEFINE f == caller[t]
<1>1. f \in Frame /\ maskPii \in BOOLEAN /\ f.reply.mask \in Tri
  BY DEF RequestInv, TypeInv, Frame, Reply
<1>2. /\ f.reply.ok => f.executed = 1
      /\ ~f.reply.ok => f.reply = NoReply
      /\ f.reply.mask # None => f.reply.mask \in f.seen \cap reported /\ f.call.api = "getVoiceStatus"
  BY DEF RequestInv, ReplyInv
<1>3. /\ f.pc \in {"status", "store"}
      /\ f.answer.success /\ f.call.api # "getApiVersionNumber" => f.reply.ok /\ f.reply.success = TRUE
      /\ f.answer.items <= Limit(f.call)
      /\ f.pc = "store" => f.answer.mask \in BOOLEAN /\ (f.answer.mask = FALSE => FALSE \in reported)
      /\ f.pc = "store" /\ f.reply.mask # None => f.answer.mask = f.reply.mask
  BY DEF AnswerMask, StoreMask, RequestInv, AnswerInv
<1>4. (maskPii = FALSE => FALSE \in reported) /\ ClearOnlyIfReported
  BY DEF RequestInv, MaskInv
<1>5. CASE AnswerMask(t)
  <2> DEFINE m == Default(f.reply.mask, maskPii)
             g == [f EXCEPT !.pc = IF f.reply.ok THEN "store" ELSE "answered", !.answer.mask = m]
  <2>1. m \in BOOLEAN /\ (f.reply.mask # None => m = f.reply.mask) /\ (m = FALSE => FALSE \in reported)
    BY <1>1, <1>2, <1>4 DEF Default, Tri
  <2>2. caller' = [caller EXCEPT ![t] = g]
    BY <1>1, <1>5 DEF AnswerMask, RequestInv, TypeInv, Frame
  <2>3. /\ g \in Frame /\ g.pc \in {"store", "answered"} /\ g.answer.mask = m /\ g.reply = f.reply
        /\ g.executed = f.executed /\ g.seen = f.seen /\ g.call = f.call
        /\ g.answer.success = f.answer.success /\ g.answer.items = f.answer.items
    BY <1>1, <2>1 DEF Frame, Tri
  <2>4. UNCHANGED <<maskPii, ctrlmMask, reported, logged>>
    BY <1>5 DEF AnswerMask
  <2> HIDE DEF g, m
  <2>5. TypeInv' /\ ReplyInv' /\ AnswerInv'
    BY <1>1, <1>2, <1>3, <2>1, <2>2, <2>3, <2>4, OneFrame
  <2> QED BY <2>4, <2>5, LogStep DEF RequestInv
<1>6. CASE StoreMask(t)
  <2> DEFINE g == [f EXCEPT !.pc = "answered"]
  <2>1. caller' = [caller EXCEPT ![t] = g] /\ f.pc = "store"
    BY <1>1, <1>6 DEF StoreMask, RequestInv, TypeInv, Frame
  <2>2. /\ g \in Frame /\ g.pc = "answered" /\ g.answer = f.answer /\ g.reply = f.reply
        /\ g.executed = f.executed /\ g.seen = f.seen /\ g.call = f.call
    BY <1>1 DEF Frame
  <2>3. UNCHANGED <<ctrlmMask, reported, logged>> /\ maskPii' = f.answer.mask
    BY <1>6 DEF StoreMask
  <2> HIDE DEF g
  <2>4. TypeInv' /\ ReplyInv' /\ AnswerInv'
    BY <1>1, <1>2, <1>3, <2>1, <2>2, <2>3, OneFrame
  <2>5. MaskInv'
    BY <1>3, <1>4, <2>1, <2>3 DEF MaskInv, ClearOnlyIfReported
  <2> QED BY <2>4, <2>5 DEF RequestInv
<1> QED BY <1>5, <1>6

LEMMA RequestNext == RequestInv /\ [Next]_vars => RequestInv'
<1> SUFFICES ASSUME RequestInv, [Next]_vars PROVE RequestInv'
  OBVIOUS
<1>1. CASE UNCHANGED vars
  <2>1. UNCHANGED <<caller, ctrlmMask, maskPii, reported, logged>> /\ maskPii \in BOOLEAN
    BY <1>1 DEF vars, RequestInv, TypeInv
  <2> QED BY <2>1, NoFrame, LogStep DEF RequestInv
<1>2. CASE Next
  BY <1>2, OtherSteps, BeginStep, ServeStep, FailStep, ReturnStep, MaskSteps DEF Next
<1> QED BY <1>1, <1>2

(* The invariant holds in every reachable state.                           *)
THEOREM Invariance == Spec => []RequestInv
BY RequestInit, RequestNext, PTL DEF Spec

(* Of what it masks at all, the implementation shows nothing in clear      *)
(* before ctrlm allowed it.                                                *)
THEOREM NothingClearUnreported == Spec => []ClearOnlyIfReported
<1>1. RequestInv => ClearOnlyIfReported
  BY DEF RequestInv, MaskInv
<1> QED BY <1>1, Invariance, PTL

(* A method says success only when ctrlm executed its request and said so.  *)
THEOREM SuccessComesFromCtrlm == Spec => []SuccessIsCtrlms
<1>1. RequestInv => SuccessIsCtrlms
  BY DEF RequestInv, ReplyInv, AnswerInv, SuccessIsCtrlms
<1> QED BY <1>1, Invariance, PTL

(* A masking setting in an answer is one ctrlm had during the call.         *)
THEOREM AnswersAreCurrent == Spec => []AnswerIsCurrent
<1>1. RequestInv => AnswerIsCurrent
  BY DEF RequestInv, ReplyInv, AnswerInv, AnswerIsCurrent
<1> QED BY <1>1, Invariance, PTL

(* No answer has a list beyond the limits of the interface.                 *)
THEOREM ListsAreCut == Spec => []ListsWithinLimits
<1>1. RequestInv => ListsWithinLimits
  BY DEF RequestInv, AnswerInv, ListsWithinLimits, Limit
<1> QED BY <1>1, Invariance, PTL

-----------------------------------------------------------------------------
(* What remains of the type invariant.                                     *)
Entry == [who : {"implementation", "sink"}, what : {"masked", "shown"}, mask : BOOLEAN \cup {None}]
WorldInv ==
  /\ configured \in BOOLEAN /\ event \in {"idle", "sink"}
  /\ reported \subseteq BOOLEAN /\ latest \in BOOLEAN
  /\ logged \subseteq Entry
  /\ \A t \in Caller : caller[t].answer.items \in 0 .. 32

LEMMA CutWithin ==
  ASSUME NEW n \in Nat, NEW c
  PROVE  Cut(n, Limit(c)) \in 0 .. 32
BY DEF Cut, Limit

(* A reply brings a report of ctrlm's setting, or none.                     *)
LEMMA ReplyMask ==
  ASSUME RequestInv, NEW t \in Caller, NEW reply \in Replies(caller[t].call)
  PROVE  reply.mask \in Tri
BY DEF Replies, RequestInv, TypeInv, Tri

LEMMA ReportTyped ==
  ASSUME WorldInv, NEW mask \in Tri, Report(mask)
  PROVE  reported' \subseteq BOOLEAN /\ latest' \in BOOLEAN
BY DEF WorldInv, Report, Default, Tri

LEMMA LogTyped ==
  ASSUME RequestInv, WorldInv, LogPayload
  PROVE  logged' \subseteq Entry
<1>1. Clear("implementation", "masked", FALSE) \in Entry
  BY DEF Clear, Entry
<1>2. CASE maskPii
  <2>1. logged' = logged
    BY <1>2, Zenon DEF LogPayload
  <2> QED BY <2>1 DEF WorldInv
<1>3. CASE ~maskPii
  <2>1. logged' = logged \cup {Clear("implementation", "masked", FALSE)}
    BY <1>3, Zenon DEF LogPayload
  <2> QED BY <1>1, <2>1 DEF WorldInv
<1> QED BY <1>2, <1>3

LEMMA WorldNext == RequestInv /\ WorldInv /\ [Next]_vars => WorldInv'
<1> SUFFICES ASSUME RequestInv, WorldInv, [Next]_vars PROVE WorldInv'
  OBVIOUS
<1>0. caller \in [Caller -> Frame]
  BY DEF RequestInv, TypeInv
<1>1. CASE Configure
  <2>1. ctrlmMask \in Tri /\ None \in Tri
    BY DEF RequestInv, TypeInv, Tri
  <2>2. reported' \subseteq BOOLEAN /\ latest' \in BOOLEAN
    BY <1>1, <2>1, ReportTyped DEF Configure, WorldInv
  <2> QED BY <1>1, <2>2 DEF Configure, Configured, WorldInv
<1>2. CASE LogEvent \/ LogInSink
  <2>1. logged' \subseteq Entry
    <3>1. /\ Clear("implementation", "shown", None) \in Entry
          /\ Clear("sink", "masked", maskPii) \in Entry
      BY DEF Clear, Entry, RequestInv, TypeInv
    <3> QED BY <1>2, <3>1, LogTyped DEF LogEvent, LogInSink, WorldInv
  <2> QED BY <1>2, <2>1 DEF LogEvent, LogInSink, WorldInv
<1>3. CASE CtrlmTurns
  <2>1. \A t \in Caller : caller'[t].answer = caller[t].answer
    BY <1>0, <1>3 DEF CtrlmTurns, Frame
  <2> QED BY <1>3, <2>1 DEF CtrlmTurns, WorldInv
<1>4. ASSUME NEW t \in Caller, NEW c \in Calls, Begin(t, c) PROVE WorldInv'
  <2>1. \A u \in Caller : caller'[u].answer.items \in 0 .. 32
    BY <1>0, <1>4 DEF Begin, NewFrame, NoAnswer, WorldInv
  <2>2. logged' \subseteq Entry
    BY <1>4, LogTyped DEF Begin, WorldInv
  <2> QED BY <1>4, <2>1, <2>2 DEF Begin, WorldInv
<1>5. ASSUME NEW t \in Caller, Serve(t) PROVE WorldInv'
  <2>1. PICK reply \in Replies(caller[t].call) :
          /\ caller' = [caller EXCEPT ![t].pc = "replied", ![t].reply = reply, ![t].executed = @ + 1]
          /\ Report(reply.mask)
    BY <1>5 DEF Serve
  <2>2. \A u \in Caller : caller'[u].answer = caller[u].answer
    BY <1>0, <2>1 DEF Frame
  <2>3. reported' \subseteq BOOLEAN /\ latest' \in BOOLEAN
    BY <2>1, ReplyMask, ReportTyped
  <2> QED BY <1>5, <2>2, <2>3 DEF Serve, WorldInv
<1>6. ASSUME NEW t \in Caller, Fail(t) \/ AnswerMask(t) \/ StoreMask(t) PROVE WorldInv'
  <2>1. \A u \in Caller : caller'[u].answer.items = caller[u].answer.items
    BY <1>0, <1>6 DEF Fail, AnswerMask, StoreMask, Frame
  <2> QED BY <1>6, <2>1 DEF Fail, AnswerMask, StoreMask, WorldInv
<1>7. ASSUME NEW t \in Caller, Return(t) PROVE WorldInv'
  <2>1. caller[t].reply.items \in Nat
    BY <1>0 DEF Frame, Reply
  <2>2. Answer(caller[t].call, caller[t].reply).items \in 0 .. 32
    BY <2>1, CutWithin DEF Answer
  <2>3. \A u \in Caller : caller'[u].answer.items \in 0 .. 32
    BY <1>0, <1>7, <2>2 DEF Return, WorldInv, Frame
  <2>4. logged' \subseteq Entry
    BY <1>7, LogTyped DEF Return, WorldInv
  <2> QED BY <1>7, <2>3, <2>4 DEF Return, WorldInv
<1>8. CASE UNCHANGED vars
  BY <1>8 DEF vars, WorldInv
<1> QED BY <1>1, <1>2, <1>3, <1>4, <1>5, <1>6, <1>7, <1>8 DEF Next

(* Every variable has its type.                                            *)
THEOREM TypeCorrect == Spec => []TypeOK
<1>1. ASSUME Init PROVE WorldInv
  <2>1. \A t \in Caller : caller[t].answer.items = 0
    BY <1>1 DEF Init, Idle, NewFrame, NoAnswer
  <2>2. configured \in BOOLEAN /\ event \in {"idle", "sink"} /\ reported \subseteq BOOLEAN
    BY <1>1 DEF Init
  <2>3. latest \in BOOLEAN /\ logged = {}
    BY <1>1, Zenon DEF Init
  <2> QED BY <2>1, <2>2, <2>3 DEF WorldInv
<1>2. RequestInv /\ WorldInv => TypeOK
  BY DEF RequestInv, TypeInv, WorldInv, TypeOK, Frame, Tri, Entry
<1> QED BY <1>1, <1>2, RequestInit, RequestNext, WorldNext, PTL DEF Spec

-----------------------------------------------------------------------------
(* With a single caller, _maskPii is behind ctrlm only while the answer     *)
(* that brought its last word is on the way to it.                         *)
FrameCached(f) ==
  /\ f.pc \in {"idle", "calling", "answered"} => maskPii = latest
  /\ f.pc \in {"replied", "status"} => latest = Default(f.reply.mask, maskPii)
  /\ f.pc = "store" => f.answer.mask = latest
CacheInv ==
  /\ ~configured => latest = TRUE /\ \A t \in Caller : caller[t].pc = "idle"
  /\ \A t \in Caller : FrameCached(caller[t])

LEMMA CacheNext ==
  ASSUME NEW u, Caller = {u}, RequestInv, CacheInv, [Next]_vars
  PROVE  CacheInv'
<1> DEFINE f == caller[u]
<1>0. caller \in [Caller -> Frame] /\ f \in Frame
  BY DEF RequestInv, TypeInv
<1>1. CASE Configure
  BY <1>1, ConstantsAssumption
     DEF ConstantsAssumption, Configure, Configured, Report, Default, CacheInv, FrameCached, RequestInv, TypeInv
<1>2. CASE LogEvent \/ LogInSink
  BY <1>2 DEF LogEvent, LogInSink, CacheInv, FrameCached
<1>3. CASE CtrlmTurns
  <2>1. caller'[u].pc = f.pc /\ caller'[u].reply = f.reply /\ caller'[u].answer = f.answer
    BY <1>0, <1>3 DEF CtrlmTurns, Frame
  <2> QED BY <1>3, <2>1 DEF CtrlmTurns, CacheInv, FrameCached
<1>4. ASSUME NEW c \in Calls, Begin(u, c) PROVE CacheInv'
  <2>1. caller'[u].pc \in {"calling", "answered"}
    BY <1>0, <1>4 DEF Begin, NewFrame
  <2> QED BY <1>4, <2>1 DEF Begin, CacheInv, FrameCached
<1>5. CASE Serve(u)
  <2>1. PICK reply \in Replies(f.call) :
          /\ caller' = [caller EXCEPT ![u].pc = "replied", ![u].reply = reply, ![u].executed = @ + 1]
          /\ Report(reply.mask)
    BY <1>5 DEF Serve
  <2>2. caller'[u].pc = "replied" /\ caller'[u].reply = reply
    BY <1>0, <2>1 DEF Frame
  <2>3. latest' = Default(reply.mask, maskPii) /\ UNCHANGED <<maskPii, configured>> /\ configured
    BY <1>5, <2>1 DEF Serve, Report, CacheInv, FrameCached
  <2> QED BY <2>2, <2>3 DEF CacheInv, FrameCached
<1>6. CASE Fail(u)
  <2>1. caller'[u].pc = "replied" /\ caller'[u].reply = f.reply
    BY <1>0, <1>6 DEF Fail, Frame
  <2>2. f.reply.mask = None
    BY <1>6 DEF Fail, RequestInv, ReplyInv, NoReply
  <2> QED BY <1>6, <2>1, <2>2 DEF Fail, CacheInv, FrameCached, Default
<1>7. CASE Return(u)
  <2>1. /\ caller'[u].reply = f.reply
        /\ caller'[u].pc = IF f.call.api = "getVoiceStatus" THEN "status" ELSE "answered"
    BY <1>0, <1>7 DEF Return, Frame
  <2>2. f.call.api # "getVoiceStatus" => f.reply.mask = None
    BY DEF RequestInv, ReplyInv
  <2> QED BY <1>7, <2>1, <2>2 DEF Return, CacheInv, FrameCached, Default
<1>8. CASE AnswerMask(u)
  <2>1. /\ caller'[u].answer.mask = Default(f.reply.mask, maskPii)
        /\ caller'[u].pc = IF f.reply.ok THEN "store" ELSE "answered"
    BY <1>0, <1>8 DEF AnswerMask, Frame
  <2>2. ~f.reply.ok => f.reply.mask = None
    BY DEF RequestInv, ReplyInv, NoReply
  <2> QED BY <1>8, <2>1, <2>2 DEF AnswerMask, CacheInv, FrameCached, Default
<1>9. CASE StoreMask(u)
  <2>1. caller'[u].pc = "answered" /\ maskPii' = f.answer.mask
    BY <1>0, <1>9 DEF StoreMask, Frame
  <2> QED BY <1>9, <2>1 DEF StoreMask, CacheInv, FrameCached
<1>10. CASE UNCHANGED vars
  BY <1>10 DEF vars, CacheInv, FrameCached
<1> QED BY <1>1, <1>2, <1>3, <1>4, <1>5, <1>6, <1>7, <1>8, <1>9, <1>10 DEF Next

(* Between the calls of a single caller _maskPii is what ctrlm said last.   *)
THEOREM SingleCallerCache ==
  ASSUME NEW CONSTANT u, Caller = {u}
  PROVE  Spec => []CacheIsLatest
<1>1. ASSUME Init PROVE CacheInv
  <2>1. \A t \in Caller : caller[t].pc = "idle"
    BY <1>1 DEF Init, Idle, NewFrame
  <2>2. maskPii = TRUE /\ latest = TRUE
    BY <1>1, Zenon DEF Init
  <2> QED BY <2>1, <2>2 DEF CacheInv, FrameCached
<1>2. RequestInv /\ CacheInv /\ [Next]_vars => CacheInv'
  BY CacheNext
<1>3. CacheInv => CacheIsLatest
  BY DEF CacheInv, FrameCached, CacheIsLatest
<1> QED BY <1>1, <1>2, <1>3, RequestInit, RequestNext, PTL DEF Spec
=============================================================================
