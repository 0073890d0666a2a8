-------------------------- MODULE MCVoicePayloads --------------------------
(***************************************************************************)
(* VoicePayloads for TLC, with integers of 4, 3 and 2 bits and a limit of  *)
(* a few characters.  Each kind of event comes with and without each of    *)
(* its labels, with values of the right and of a wrong type; the data of   *)
(* one event is of every length around the header and ends anywhere.       *)
(***************************************************************************)
EXTENDS VoicePayloads, TLC

Texts == {t \in [form : {"json", "quoted", "plain"}, size : 0 .. Limit + 3] :
            t.form = "quoted" => t.size >= 2}

Numbers  == {Json("number", n) : n \in Signed64} \cup {Json("string", "other")}
Booleans == {Json("boolean", TRUE), Json("boolean", FALSE), Json("string", "other")}
Names(S) == {Json("string", s) : s \in S \cup {"other"}} \cup {Json("number", 1)}
Objects  == {Json("object", 0), Json("object", 1), Json("string", "other")}

(* A label with each of its values, or missing.                            *)
Label(l, values) == {l :> v : v \in values} \cup {<<>>}
Both(S, T) == {s @@ t : s \in S, t \in T}
Remote == Label("remoteId", Numbers)
Known  == Label("remoteId", {Json("number", 1)})

Results == UNION {{[l \in D |-> o] : D \in SUBSET ResultLabels} : o \in Objects}
Params == [
  SESSION_BEGIN |->
    Both(Known, Both(Label("deviceType", Names({"ptt", "ff", "mic"})),
                     Label("keywordVerification", Booleans))),
  STREAM_BEGIN |-> Remote,
  KEYWORD_VERIFICATION |-> Both(Known, Label("verified", Booleans)),
  SERVER_MESSAGE |-> Label("created", Numbers),
  STREAM_END |-> Both(Remote, Label("reason", Numbers)),
  SESSION_END |->
    Both(Label("result", Names({"success", "error", "abort", "shortUtterance"})), Results)]

(* The data of an event: it has a NUL somewhere after the header, or none.  *)
Datas ==
  {[id |-> i, owner |-> o, revision |-> r, len |-> n, nul |-> e,
    params |-> "remoteId" :> Json("number", 1)] :
     i \in {"STREAM_BEGIN", "OTHER"}, o \in {"ctrlm", "other"}, r \in BOOLEAN,
     n \in HeaderSize - 1 .. HeaderSize + 2, e \in {HeaderSize, HeaderSize + 1, HeaderSize + 9}}

Events == UNION {{WellFormed(id, p) : p \in Params[id]} : id \in KnownEvents} \cup Datas

(* Every label, none, all but one, and one alone.                          *)
Answers ==
  {[f \in D |-> "reported"] :
     D \in {StatusFields, {}} \cup {StatusFields \ {f} : f \in StatusFields}
                             \cup {{f} : f \in StatusFields}}
=============================================================================
