------------------------ MODULE VoicePayloadsProofs ------------------------
(***************************************************************************)
(* Proofs about VoicePayloads, for integers of any width, any limit and    *)
(* any events of ctrlm.  The invariant says what each stage of a flow has  *)
(* kept of what was asked.                                                 *)
(***************************************************************************)
EXTENDS VoicePayloads, TLAPS

(* Casts.                                                                  *)
LEMMA SignedRoundTrip ==
  ASSUME NEW c \in Unsigned(Modulus64)
  PROVE  ToUnsigned(ToSigned(c)) = c
BY PayloadsAssumption DEF PayloadsAssumption, Unsigned, ToUnsigned, ToSigned

LEMMA UnsignedInRange ==
  ASSUME NEW n \in Signed64
  PROVE  ToUnsigned(n) \in Unsigned(Modulus64)
BY PayloadsAssumption DEF PayloadsAssumption, Unsigned, ToUnsigned, Signed64

LEMMA Moduli == \A m \in {Modulus64, Modulus32, Modulus8} : m \in Nat \ {0}
BY PayloadsAssumption, Zenon DEF PayloadsAssumption

LEMMA NarrowInRange ==
  ASSUME NEW n \in Int, NEW m \in {Modulus32, Modulus8}
  PROVE  Narrow(n, m) \in Unsigned(m)
<1>1. m \in Int /\ m > 0
  BY Moduli
<1>2. ASSUME NEW k \in Int, k > 0 PROVE n % k \in Int /\ 0 <= n % k /\ n % k <= k - 1
  BY <1>2
<1> QED BY <1>1, <1>2 DEF Unsigned, Narrow

LEMMA NarrowKeeps ==
  ASSUME NEW m \in {Modulus32, Modulus8}, NEW n \in Unsigned(m)
  PROVE  Narrow(n, m) = n
<1>1. m \in Int /\ m > 0
  BY Moduli
<1>2. n \in Int /\ 0 <= n /\ n < m
  BY <1>1 DEF Unsigned
<1>3. ASSUME NEW k \in Int, k > 0, NEW i \in Int, 0 <= i, i < k PROVE i % k = i
  BY <1>3
<1> QED BY <1>1, <1>2, <1>3 DEF Narrow

-----------------------------------------------------------------------------
(* What the stages keep.                                                   *)
Message == [created : Optional(Unsigned(Modulus64)), msgPayload : Optional(ClientTexts)]
Session == [device : Optional(DeviceTypes)]

(* The event that ctrlm echoes for a message.                              *)
Echoed(message) ==
  LET r   == MessageRequest(message.created, message.msgPayload)
      has == {l \in {"created", "msgPayload"} : r[l] # {}}
  IN  WellFormed("SERVER_MESSAGE",
        [l \in has |-> Json(IF l = "created" THEN "number" ELSE "text", CHOOSE v \in r[l] : TRUE)])

Begun(device) == WellFormed("SESSION_BEGIN", [l \in {"deviceType"} |-> Json("string", device)])

AskedInv ==
  /\ stage = "idle" => asked = Nothing
  /\ stage = "message" => asked \in Message /\ request = MessageRequest(asked.created, asked.msgPayload)
  /\ stage = "session" =>
       \E type \in DOMAIN TypeToString :
         asked \in Session /\ asked.device \subseteq {DeviceOf(type)}
         /\ request = [type |-> TypeToString[type]]

(* An event is ctrlm's own, or the answer to what was asked.                *)
Travelling == stage \in {"event", "notified", "published", "dropped"}
EventInv ==
  Travelling =>
    \/ asked = Nothing /\ event \in BusEvents
    \/ asked \in Message /\ event = Echoed(asked)
    \/ asked \in Session /\ \E device \in {"ptt", "ff", "mic"} :
         event = Begun(device) /\ asked.device \subseteq {StringToDevice(device)}

Seen(labels) == ObserverCall(event.id, [l \in labels |-> event.params[l]])
CallInv ==
  Handed =>
    /\ Accepted(event) /\ notified.end = Terminated(event)
    /\ \E labels \in {DOMAIN event.params, {}} :
         (Whole => labels = DOMAIN event.params) /\ notified.call = Seen(labels)

PublishedInv ==
  /\ stage = "published" => published = JsonRpcEvent(notified.call)
  /\ NothingStale

Stages == {"idle", "message", "session", "event", "notified", "published", "dropped", "answered"}
PayloadsInv == stage \in Stages /\ AskedInv /\ EventInv /\ CallInv /\ PublishedInv

LEMMA PayloadsInit == Init => PayloadsInv
BY DEF Init, PayloadsInv, AskedInv, EventInv, CallInv, PublishedInv, NothingStale, Stages, Travelling, Handed

(* Every type of request is begun as a session of the device it is for.     *)
LEMMA DeviceTables ==
  ASSUME NEW type \in DOMAIN TypeToString
  PROVE  /\ DeviceString(TypeToString[type]) \in {"ptt", "ff", "mic"}
         /\ StringToDevice(DeviceString(TypeToString[type])) = DeviceOf(type)
BY DEF TypeToString, DeviceString, StringToDevice, DeviceOf

LEMMA TranscriptionFor ==
  ASSUME NEW device \in Optional(DeviceTypes)
  PROVE  /\ TranscriptionType(device) \in DOMAIN TypeToString
         /\ device \subseteq {DeviceOf(TranscriptionType(device))}
BY DEF Optional, DeviceTypes, TranscriptionType, TypeToString, DeviceOf

LEMMA DeviceOfType == \A type \in DOMAIN TypeToString : {DeviceOf(type)} \in Optional(DeviceTypes)
BY DEF Optional, DeviceTypes, DeviceOf

LEMMA PayloadsNext == PayloadsInv /\ [Next]_vars => PayloadsInv'
<1> SUFFICES ASSUME PayloadsInv, [Next]_vars PROVE PayloadsInv'
  OBVIOUS
<1> USE DEF Begin, Put, flow, Travelling, Handed
<1>1. CASE SendVoiceMessage
  <2>1. /\ stage' = "message" /\ UNCHANGED response
        /\ asked' \in Message /\ request' = MessageRequest(asked'.created, asked'.msgPayload)
    BY <1>1 DEF SendVoiceMessage, Message
  <2> QED BY <2>1 DEF PayloadsInv, AskedInv, EventInv, CallInv, PublishedInv, NothingStale, Stages
<1>2. CASE VoiceSessionByText \/ VoiceSessionRequest
  <2>1. PICK type \in DOMAIN TypeToString :
          /\ asked' \in Session /\ asked'.device \subseteq {DeviceOf(type)}
          /\ request' = [type |-> TypeToString[type]] /\ stage' = "session"
    <3>1. CASE VoiceSessionByText
      <4>1. PICK device \in Optional(DeviceTypes) :
              Begin("session", [device |-> device], [type |-> TypeToString[TranscriptionType(device)]])
        BY <3>1 DEF VoiceSessionByText
      <4> QED BY <4>1, TranscriptionFor DEF Session
    <3>2. CASE VoiceSessionRequest
      BY <3>2, DeviceOfType DEF VoiceSessionRequest, Session
    <3> QED BY <1>2, <3>1, <3>2
  <2> QED BY <2>1 DEF PayloadsInv, AskedInv, EventInv, CallInv, PublishedInv, NothingStale, Stages
<1>3. CASE EchoMessage
  <2>1. asked \in Message /\ request = MessageRequest(asked.created, asked.msgPayload)
    BY <1>3 DEF EchoMessage, PayloadsInv, AskedInv
  <2>2. event' = Echoed(asked) /\ stage' = "event" /\ UNCHANGED asked
    BY <1>3, <2>1 DEF EchoMessage, Echoed
  <2> QED BY <2>1, <2>2 DEF PayloadsInv, AskedInv, EventInv, CallInv, PublishedInv, NothingStale, Stages
<1>4. CASE BeginSession
  <2>1. PICK type \in DOMAIN TypeToString :
          asked \in Session /\ asked.device \subseteq {DeviceOf(type)}
          /\ request = [type |-> TypeToString[type]]
    BY <1>4 DEF BeginSession, PayloadsInv, AskedInv
  <2>2. event' = Begun(DeviceString(TypeToString[type])) /\ stage' = "event" /\ UNCHANGED asked
    BY <1>4, <2>1 DEF BeginSession, Begun
  <2>3. EventInv'
    BY <2>1, <2>2, DeviceTables DEF EventInv
  <2> QED BY <2>2, <2>3 DEF PayloadsInv, AskedInv, CallInv, PublishedInv, NothingStale, Stages
<1>5. CASE CtrlmSends
  <2>1. asked' = Nothing /\ event' \in BusEvents /\ stage' = "event"
    BY <1>5 DEF CtrlmSends, PayloadsInv, AskedInv
  <2> QED BY <2>1 DEF PayloadsInv, AskedInv, EventInv, CallInv, PublishedInv, NothingStale, Stages
<1>6. CASE Handle
  <2>1. stage = "event" /\ UNCHANGED <<asked, event, published, reply, response>>
    BY <1>6 DEF Handle
  <2>2. EventInv'
    BY <1>6, <2>1 DEF Handle, PayloadsInv, EventInv
  <2>3. CASE Accepted(event)
    <3>1. stage' = "notified"
      BY <1>6, <2>3 DEF Handle
    <3>2. \E labels \in IF Whole THEN {DOMAIN event.params} ELSE {DOMAIN event.params, {}} :
            notified' = [call |-> Seen(labels), end |-> Terminated(event)]
      BY <1>6, <2>3 DEF Handle, Seen, Whole
    <3>3. CallInv'
      BY <2>1, <2>3, <3>1, <3>2 DEF CallInv, Whole, Seen, Accepted, Terminated
    <3> QED BY <2>1, <2>2, <3>1, <3>3 DEF PayloadsInv, AskedInv, PublishedInv, NothingStale, Stages
  <2>4. CASE ~Accepted(event)
    <3>1. stage' = "dropped"
      BY <1>6, <2>4 DEF Handle
    <3> QED BY <2>1, <2>2, <3>1 DEF PayloadsInv, AskedInv, CallInv, PublishedInv, NothingStale, Stages
  <2> QED BY <2>3, <2>4
<1>7. CASE Publish
  <2>1. /\ stage = "notified" /\ stage' = "published" /\ published' = JsonRpcEvent(notified.call)
        /\ UNCHANGED <<asked, request, event, notified, reply, response>>
    BY <1>7 DEF Publish
  <2>2. EventInv' /\ CallInv'
    BY <2>1 DEF PayloadsInv, EventInv, CallInv, Whole, Seen
  <2> QED BY <2>1, <2>2 DEF PayloadsInv, AskedInv, PublishedInv, NothingStale, Stages
<1>8. CASE GetVoiceStatus
  <2>1. stage' = "answered" /\ UNCHANGED <<asked, request, event, notified, published>>
    BY <1>8 DEF GetVoiceStatus
  <2>2. NothingStale'
    <3>1. CASE \E r \in Replies : reply' = {r} /\ response' = Filled(r)
      BY <2>1, <3>1 DEF NothingStale, Filled
    <3>2. CASE response' = [f \in StatusFields |-> IF f \in Cleared THEN "default" ELSE response[f]]
      BY <2>1, <3>2 DEF NothingStale, StatusFields, Cleared
    <3> QED BY <1>8, <3>1, <3>2 DEF GetVoiceStatus
  <2> QED BY <2>1, <2>2 DEF PayloadsInv, AskedInv, EventInv, CallInv, PublishedInv, Stages
<1>9. CASE Finish
  <2>1. stage' = "idle" /\ asked' = Nothing
    BY <1>9 DEF Finish
  <2> QED BY <2>1 DEF PayloadsInv, AskedInv, EventInv, CallInv, PublishedInv, NothingStale, Stages
<1>10. CASE UNCHANGED vars
  BY <1>10 DEF vars, PayloadsInv, AskedInv, EventInv, CallInv, PublishedInv, NothingStale, Whole, Seen
<1> QED BY <1>1, <1>2, <1>3, <1>4, <1>5, <1>6, <1>7, <1>8, <1>9, <1>10 DEF Next

LEMMA PayloadsInvariance == Spec => []PayloadsInv
BY PayloadsInit, PayloadsNext, PTL DEF Spec

-----------------------------------------------------------------------------
(* What an event that reaches the observers is known to be.                *)
LEMMA SomeEvent ==
  ASSUME PayloadsInv, Handed
  PROVE  event.len \in Nat /\ event.nul \in Nat /\ event.nul >= HeaderSize /\ Accepted(event)
<1>1. CASE event \in BusEvents
  BY <1>1, PayloadsAssumption DEF PayloadsAssumption, PayloadsInv, CallInv
<1>2. ASSUME NEW id, NEW params, event = WellFormed(id, params)
      PROVE  event.len \in Nat /\ event.nul \in Nat /\ event.nul >= HeaderSize
  BY <1>2, PayloadsAssumption DEF PayloadsAssumption, WellFormed
<1> QED BY <1>1, <1>2 DEF PayloadsInv, CallInv, EventInv, Travelling, Handed, Echoed, Begun

(* An answer of ctrlm is not cut off.                                      *)
LEMMA WellFormedWhole ==
  ASSUME NEW id, NEW params, event = WellFormed(id, params)
  PROVE  Whole /\ event.params = params /\ event.id = id
BY PayloadsAssumption DEF PayloadsAssumption, WellFormed, Whole

LEMMA WholeCall ==
  ASSUME PayloadsInv, Handed, NEW id, NEW params, event = WellFormed(id, params),
         params = [l \in DOMAIN params |-> params[l]]
  PROVE  Call = ObserverCall(id, params)
BY WellFormedWhole DEF PayloadsInv, CallInv, Seen, Call

(* The payload is read up to a NUL that is in the data of the event.        *)
THEOREM TextStaysInside == Spec => []TextInsideData
<1>1. PayloadsInv => TextInsideData
  BY SomeEvent, PayloadsAssumption
     DEF PayloadsAssumption, TextInsideData, PayloadsInv, CallInv, Terminated, Accepted
<1> QED BY <1>1, PayloadsInvariance, PTL

(* A message that ctrlm echoes comes back as it was sent, for integers of   *)
(* any width.                                                              *)
THEOREM MessagesComeBack == Spec => []MessageEchoed
<1>1. PayloadsInv => MessageEchoed
  <2> SUFFICES ASSUME PayloadsInv, Handed, Asks("created")
               PROVE  /\ Call.created \in asked.created \cup {0} /\ asked.created \subseteq {Call.created}
                      /\ \A t \in asked.msgPayload :
                           LET size == IF t.form = "quoted" THEN t.size - 2 ELSE t.size IN
                           IF size <= Limit
                             THEN /\ Call.msgPayload.size = size
                                  /\ t.form = "json" /\ size > 0 => Call.msgPayload = t
                             ELSE Call.msgPayload.size = Limit /\ Call.msgPayload.form # "json"
    BY DEF MessageEchoed
  <2> DEFINE r == MessageRequest(asked.created, asked.msgPayload)
             has == {l \in {"created", "msgPayload"} : r[l] # {}}
             params == [l \in has |-> Json(IF l = "created" THEN "number" ELSE "text",
                                           CHOOSE v \in r[l] : TRUE)]
  <2>1. asked \in Message /\ event = Echoed(asked)
    BY DEF PayloadsInv, EventInv, Travelling, Handed, Asks, Nothing, Session
  <2>2. Call = ObserverCall("SERVER_MESSAGE", params)
    BY <2>1, WholeCall DEF Echoed
  <2>3. /\ Call.created = ToUnsigned(NumberOf(params, "created"))
        /\ Call.msgPayload = IF HasLabel(params, "msgPayload")
                               THEN Clamped(params["msgPayload"].value) ELSE EmptyText
    BY <2>2 DEF ObserverCall
  <2>4. /\ r.created = {ToSigned(c) : c \in asked.created \ {0}}
        /\ r.msgPayload = {JsonText(t) : t \in {p \in asked.msgPayload : p.size > 0}}
    BY DEF MessageRequest
  <2>5. Call.created \in asked.created \cup {0} /\ asked.created \subseteq {Call.created}
    <3>1. CASE asked.created = {} \/ asked.created = {0}
      <4>1. NumberOf(params, "created") = 0
        BY <2>4, <3>1 DEF NumberOf, HasLabel
      <4>2. ToUnsigned(0) = 0
        BY DEF ToUnsigned
      <4> QED BY <2>3, <3>1, <4>1, <4>2
    <3>2. ASSUME NEW c \in Unsigned(Modulus64), asked.created = {c}, c # 0
          PROVE  Call.created = c
      <4>1. r.created = {ToSigned(c)}
        BY <2>4, <3>2
      <4>2. NumberOf(params, "created") = ToSigned(c)
        BY <4>1 DEF NumberOf, HasLabel, Number, Json
      <4> QED BY <2>3, <4>2, SignedRoundTrip
    <3> QED BY <2>1, <3>1, <3>2 DEF Message, Optional
  <2>6. ASSUME NEW t \in asked.msgPayload
        PROVE  LET size == IF t.form = "quoted" THEN t.size - 2 ELSE t.size IN
               IF size <= Limit
                 THEN /\ Call.msgPayload.size = size
                      /\ t.form = "json" /\ size > 0 => Call.msgPayload = t
                 ELSE Call.msgPayload.size = Limit /\ Call.msgPayload.form # "json"
    <3>1. t \in ClientTexts /\ asked.msgPayload = {t}
      BY <2>1, <2>6 DEF Message, Optional
    <3>2. t \in Text /\ (t.form = "quoted" => t.size >= 2) /\ Limit \in Nat
      BY <3>1, PayloadsAssumption DEF PayloadsAssumption
    <3>3. CASE t.size = 0
      <4>1. r.msgPayload = {}
        BY <2>4, <3>1, <3>3
      <4>2. Call.msgPayload = EmptyText
        BY <2>3, <4>1 DEF HasLabel
      <4> QED BY <3>2, <3>3, <4>2 DEF EmptyText, Text
    <3>4. CASE t.size # 0
      <4>1. r.msgPayload = {JsonText(t)}
        BY <2>4, <3>1, <3>2, <3>4 DEF Text
      <4>2. Call.msgPayload = Clamped(JsonText(t))
        BY <2>3, <4>1 DEF HasLabel, Json
      <4> QED BY <3>2, <4>2 DEF Clamped, JsonText, Text
    <3> QED BY <3>3, <3>4
  <2> QED BY <2>5, <2>6
<1> QED BY <1>1, PayloadsInvariance, PTL

(* A session begins as one of the device it was asked for.                  *)
THEOREM DevicesKept == Spec => []DeviceKept
<1>1. PayloadsInv => DeviceKept
  <2> SUFFICES ASSUME PayloadsInv, Handed, Asks("device")
               PROVE  asked.device \subseteq {Call.deviceType}
    BY DEF DeviceKept
  <2>1. PICK device \in {"ptt", "ff", "mic"} :
          event = Begun(device) /\ asked.device \subseteq {StringToDevice(device)}
    BY DEF PayloadsInv, EventInv, Travelling, Handed, Asks, Nothing, Message
  <2> DEFINE params == [l \in {"deviceType"} |-> Json("string", device)]
  <2>2. Call = ObserverCall("SESSION_BEGIN", params)
    BY <2>1, WholeCall DEF Begun
  <2>3. Call.deviceType = StringToDevice(device)
    BY <2>2 DEF ObserverCall, HasLabel, String, Json
  <2> QED BY <2>1, <2>3
<1> QED BY <1>1, PayloadsInvariance, PTL

(* What the labels of an event that reaches the observers have as values.   *)
LEMMA SomeValue ==
  ASSUME PayloadsInv, Handed, NEW l \in DOMAIN event.params
  PROVE  /\ event.params[l].type = "number" => event.params[l].value \in Signed64
         /\ event.params[l].type = "object" => event.params[l].value \in Nat
<1>1. CASE event \in BusEvents
  BY <1>1, PayloadsAssumption DEF PayloadsAssumption
<1>2. ASSUME NEW device, event = Begun(device)
      PROVE  event.params[l].type = "string"
  BY <1>2 DEF Begun, WellFormed, Json
<1>3. CASE asked \in Message /\ event = Echoed(asked)
  <2> DEFINE r == MessageRequest(asked.created, asked.msgPayload)
  <2>1. r.created \subseteq Signed64
    BY <1>3, PayloadsAssumption
       DEF PayloadsAssumption, MessageRequest, Message, Optional, Unsigned, ToSigned, Signed64
  <2>2. l \in {"created", "msgPayload"} /\ r[l] # {}
    BY <1>3 DEF Echoed, WellFormed
  <2>3. event.params[l] = Json(IF l = "created" THEN "number" ELSE "text", CHOOSE v \in r[l] : TRUE)
    BY <1>3, <2>2 DEF Echoed, WellFormed
  <2>4. (CHOOSE v \in r[l] : TRUE) \in r[l]
    BY <2>2
  <2> QED BY <2>1, <2>2, <2>3, <2>4 DEF Json
<1> QED BY <1>1, <1>2, <1>3 DEF PayloadsInv, EventInv, Travelling, Handed

(* The labels that the parser has found: all of them, or none.              *)
LEMMA SomeCall ==
  ASSUME PayloadsInv, Handed
  PROVE  \E labels \in SUBSET DOMAIN event.params :
           (Whole => labels = DOMAIN event.params) /\ Call = Seen(labels)
BY DEF PayloadsInv, CallInv, Call

(* Numbers that fit reach the observers as they are.                       *)
THEOREM NumbersPass == Spec => []NumbersKept
<1>1. PayloadsInv => NumbersKept
  <2> SUFFICES ASSUME PayloadsInv, Handed, Whole, NEW l \in {"remoteId", "reason"} \cap DOMAIN Call
               PROVE  /\ HasNumber(l, RangeOf[l]) => Call[l] = event.params[l].value
                      /\ ~HasNumber(l, Signed64) => Call[l] = 0
    BY DEF NumbersKept
  <2> DEFINE params == [k \in DOMAIN event.params |-> event.params[k]]
             m == IF l = "remoteId" THEN Modulus32 ELSE Modulus8
  <2>1. Call = ObserverCall(event.id, params) /\ event.id \in KnownEvents
    BY SomeCall, SomeEvent DEF Seen, Accepted
  <2>2. Call[l] = Narrow(NumberOf(params, l), m)
    BY <2>1 DEF ObserverCall, KnownEvents, Uint32Of
  <2>3. RangeOf[l] = Unsigned(m) /\ m \in {Modulus32, Modulus8}
    BY DEF RangeOf
  <2>4. ASSUME HasNumber(l, RangeOf[l]) PROVE Call[l] = event.params[l].value
    BY <2>2, <2>3, <2>4, NarrowKeeps DEF HasNumber, NumberOf, HasLabel, Number
  <2>5. ASSUME ~HasNumber(l, Signed64) PROVE Call[l] = 0
    <3>1. NumberOf(params, l) = 0
      BY <2>5, SomeValue DEF HasNumber, NumberOf, HasLabel, Number
    <3>2. 0 \in Unsigned(m)
      BY <2>3, Moduli DEF Unsigned
    <3> QED BY <2>2, <2>3, <3>1, <3>2, NarrowKeeps
  <2> QED BY <2>4, <2>5
<1> QED BY <1>1, PayloadsInvariance, PTL

(* The observers get numbers of the types of their parameters.             *)
THEOREM TypeCorrect == Spec => []TypeOK
<1>1. PayloadsInv => TypeOK
  <2> SUFFICES ASSUME PayloadsInv, Handed, NEW l \in DOMAIN RangeOf \cap DOMAIN Call
               PROVE  Call[l] \in RangeOf[l]
    BY DEF TypeOK, PayloadsInv, Stages
  <2>1. PICK labels \in SUBSET DOMAIN event.params : Call = Seen(labels)
    BY SomeCall
  <2> DEFINE params == [k \in labels |-> event.params[k]]
  <2>2. event.id \in KnownEvents
    BY SomeEvent DEF Accepted
  <2>3. NumberOf(params, l) \in Signed64
    <3>1. 0 \in Signed64
      BY PayloadsAssumption DEF PayloadsAssumption, Signed64
    <3> QED BY <2>1, <3>1, SomeValue DEF NumberOf, HasLabel, Number
  <2>4. CASE l = "remoteId"
    <3>1. Call[l] = Narrow(NumberOf(params, l), Modulus32)
      BY <2>1, <2>2, <2>4 DEF Seen, ObserverCall, KnownEvents, Uint32Of
    <3> QED BY <2>3, <2>4, <3>1, NarrowInRange DEF RangeOf, Signed64
  <2>5. CASE l = "reason"
    <3>1. Call[l] = Narrow(NumberOf(params, l), Modulus8)
      BY <2>1, <2>2, <2>5 DEF Seen, ObserverCall, KnownEvents
    <3> QED BY <2>3, <2>5, <3>1, NarrowInRange DEF RangeOf, Signed64
  <2>6. CASE l = "created"
    <3>1. Call[l] = ToUnsigned(NumberOf(params, l))
      BY <2>1, <2>2, <2>6 DEF Seen, ObserverCall, KnownEvents
    <3> QED BY <2>3, <2>6, <3>1, UnsignedInRange DEF RangeOf
  <2> QED BY <2>4, <2>5, <2>6 DEF RangeOf
<1> QED BY <1>1, PayloadsInvariance, PTL

(* What a session ended with reaches JSON-RPC clients, and nothing else.    *)
THEOREM ObjectsPass == Spec => []ObjectsPassThrough
<1>1. PayloadsInv => ObjectsPassThrough
  <2> SUFFICES ASSUME PayloadsInv, stage = "published", published.kind = "SESSION_END"
               PROVE  /\ \A l \in DOMAIN published.objects :
                           published.objects[l].form = "json" /\ published.objects[l].size >= 2
                      /\ Whole => DOMAIN published.objects = DOMAIN event.params \cap ResultLabels
    BY DEF ObjectsPassThrough
  <2>0. Handed
    BY DEF Handed
  <2>1. PICK labels \in SUBSET DOMAIN event.params :
          (Whole => labels = DOMAIN event.params) /\ Call = Seen(labels)
    BY <2>0, SomeCall
  <2> DEFINE params == [k \in labels |-> event.params[k]]
  <2>2. published = JsonRpcEvent(Call) /\ event.id \in KnownEvents
    BY <2>0, SomeEvent DEF PayloadsInv, PublishedInv, Call, Accepted
  <2>3. Call.kind = event.id
    BY <2>1, <2>2 DEF Seen, ObserverCall, KnownEvents
  <2>4. event.id = "SESSION_END"
    BY <2>2, <2>3 DEF JsonRpcEvent
  <2>5. /\ Call.kind = "SESSION_END"
        /\ Call.objects = [l \in ResultLabels |->
                             IF HasLabel(params, l) THEN ObjectText(params[l]) ELSE EmptyText]
    BY <2>1, <2>4 DEF Seen, ObserverCall
  <2>6. published.objects = [l \in Included(Call.objects) |-> Call.objects[l]]
    BY <2>2, <2>5 DEF JsonRpcEvent
  <2>7. ASSUME NEW l \in ResultLabels, l \in labels
        PROVE  Call.objects[l].form = "json" /\ Call.objects[l].size \in Nat /\ Call.objects[l].size >= 2
    BY <2>0, <2>1, <2>5, <2>7, SomeValue DEF HasLabel, ObjectText
  <2>8. ASSUME NEW l \in ResultLabels, l \notin labels PROVE Call.objects[l].size = 0
    BY <2>5, <2>8 DEF HasLabel, EmptyText
  <2>9. Included(Call.objects) = labels \cap ResultLabels
    BY <2>7, <2>8 DEF Included
  <2> QED BY <2>1, <2>6, <2>7, <2>9
<1> QED BY <1>1, PayloadsInvariance, PTL

(* A response holds nothing of an earlier call.                            *)
THEOREM ResponseFresh == Spec => []NothingStale
<1>1. PayloadsInv => NothingStale
  BY DEF PayloadsInv, PublishedInv
<1> QED BY <1>1, PayloadsInvariance, PTL
=============================================================================
