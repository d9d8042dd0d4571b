----------------------------- MODULE FheRelease -----------------------------
(***************************************************************************)
(* POST /v1/fhe/infer of apps/broker/src/routes/fhe.ts over the gate of    *)
(* packages/fhe-gate: an inference on ciphertext, then the release of its  *)
(* result, each on the Providence chain.                                   *)
(*                                                                         *)
(* A step is one run of the event loop between two awaits.  The gate's     *)
(* provider acts at some moment after it is called; only its release is    *)
(* split from the answer, since only there it writes to the chain itself.  *)
(* Every inference has its own handle and every grant its own receipt      *)
(* (random UUIDs), so both are named by their request.                     *)
(***************************************************************************)
EXTENDS Integers, Sequences

CONSTANTS Requests,       \* requests to /v1/fhe/infer
          Classification, \* of the computation: FHE_COMPUTATIONS fixes it
          Window,         \* how many records findRecord looks back (8)
          MayOmit,        \* may a provider release without a record?
          RecordsFail,    \* may an append, or reading the chain's page, throw?
          MaxOthers       \* bound on the records of other handlers

Classifications == {"public", "sensitive", "regulated", "classified-adjacent"}

ASSUME ReleaseAssumption ==
    /\ Classification \in Classifications
    /\ Window \in Nat \ {0}
    /\ MayOmit \in BOOLEAN
    /\ RecordsFail \in BOOLEAN
    /\ MaxOthers \in Nat

VARIABLES log,      \* the Providence chain
          head,     \* the head in memory: how many records page() reads
          refusing, \* the log refuses appends
          req,      \* the requests
          receipt   \* the provider's receipts: none, live, used or expired

chainVars == <<log, head, refusing>>
vars == <<chainVars, req, receipt>>

None  == "none"
Event == {"mode_a_inference", "mode_c_decryption", "endpoint_attestation_fail", "deny"}
Step  == {"shape", "computed", "service_error", "denied", "endpoint-attestation",
          "dual-control", "gate", "release", "record"}
PC    == {"idle", "inferring", "attesting", "approving", "releasing", "released",
          "rejected", "done"}

Record == [event : Event, of : Requests, step : Step] \cup [event : {"other"}]

(* status is the answer's outcome; inference and release are the positions *)
(* on the chain of the records the answer names (0: none).                 *)
Request == [pc : PC, status : Step \cup {None, "released", "500"},
            inference : Nat, release : Nat]

TypeOK ==
    /\ log \in Seq(Record)
    /\ head \in 0..Len(log)
    /\ refusing \in BOOLEAN
    /\ req \in [Requests -> Request]
    /\ receipt \in [Requests -> {None, "live", "used", "expired"}]

Init ==
    /\ log = <<>>
    /\ head = 0
    /\ refusing = FALSE
    /\ req = [r \in Requests |-> [pc |-> "idle", status |-> None, inference |-> 0, release |-> 0]]
    /\ receipt = [r \in Requests |-> None]

-----------------------------------------------------------------------------
(* The gate's decision, a function of the classification, the mode asked   *)
(* for, and whether an attestation and a receipt come with it.             *)

ModesAllowed(c) == IF c = "classified-adjacent" THEN {"A"} ELSE {"A", "B", "C"}

Evaluate(c, mode, attested, granted) ==
    IF \/ mode \notin ModesAllowed(c)
       \/ mode = "C" /\ ~attested
       \/ mode = "C" /\ c = "regulated" /\ ~granted
    THEN "denied" ELSE mode

-----------------------------------------------------------------------------
Entry(event, r, step) == [event |-> event, of |-> r, step |-> step]

Recorded(event, r, step) ==
    /\ ~refusing
    /\ log' = Append(log, Entry(event, r, step))
    /\ head' = Len(log')
    /\ UNCHANGED refusing

(* The records that quote what a client, the provider or the service said. *)
QuotesText(step) == step \notin {"denied", "record"}

(* The append throws: the log refuses, now or already, or the text a record*)
(* quotes has no encoding and only this append throws.  When the last fsync*)
(* is what failed, the record is on the chain, past the head in memory.    *)
NotRecorded(event, r, step) ==
    \/ refusing /\ UNCHANGED chainVars
    \/ RecordsFail /\ ~refusing /\ QuotesText(step) /\ UNCHANGED chainVars
    \/ /\ RecordsFail /\ ~refusing
       /\ refusing' = TRUE
       /\ log' \in {log, Append(log, Entry(event, r, step))}
       /\ UNCHANGED head

NamesOneBefore(r, event, step) ==
    \/ /\ Recorded(event, r, step)
       /\ req' = [req EXCEPT ![r].pc = "done", ![r].status = step, ![r].release = head - 1]
    \/ /\ NotRecorded(event, r, step)
       /\ req' = [req EXCEPT ![r].pc = "done", ![r].status = "500"]

(* The handler ends: with the answer its record is named in, or, when the  *)
(* append throws, with 500.                                                *)
Answer(r, event, step) ==
    \/ /\ Recorded(event, r, step)
       /\ req' = [req EXCEPT ![r].pc = "done", ![r].status = step, ![r].release = head']
    \/ /\ NotRecorded(event, r, step)
       /\ req' = [req EXCEPT ![r].pc = "done", ![r].status = "500"]

Refuse(r, step) ==
    Answer(r, IF step = "endpoint-attestation" THEN "endpoint_attestation_fail" ELSE "deny", step)

(* The shape of the request, then the mode: inferModeA is called, or the   *)
(* request ends here.                                                      *)
Arrive(r) ==
    /\ req[r].pc = "idle"
    /\ \/ Answer(r, "deny", "shape")
       \/ IF Evaluate(Classification, "A", FALSE, FALSE) # "A"
          THEN Answer(r, "mode_a_inference", "denied")
          ELSE /\ req' = [req EXCEPT ![r].pc = "inferring"]
               /\ UNCHANGED chainVars
    /\ UNCHANGED receipt

(* inferModeA answered: its record, and attestEndpoint is called.          *)
Inferred(r) ==
    /\ req[r].pc = "inferring"
    /\ \/ /\ Recorded("mode_a_inference", r, "computed")
          /\ req' = [req EXCEPT ![r].pc = "attesting", ![r].inference = head']
       \/ /\ NotRecorded("mode_a_inference", r, "computed")
          /\ req' = [req EXCEPT ![r].pc = "done", ![r].status = "500"]
    /\ UNCHANGED receipt

InferenceFailed(r) ==
    /\ req[r].pc = "inferring"
    /\ Answer(r, "mode_a_inference", "service_error")
    /\ UNCHANGED receipt

Attested(r) ==
    /\ req[r].pc = "attesting"
    /\ \/ /\ req' = [req EXCEPT ![r].pc = "approving"]
          /\ UNCHANGED chainVars
       \/ Refuse(r, "endpoint-attestation")
    /\ UNCHANGED receipt

(* issueDualControlReceipt answered; the gate decides Mode C at once, and  *)
(* releaseModeC is called.                                                 *)
Approved(r) ==
    /\ req[r].pc = "approving"
    /\ receipt' = [receipt EXCEPT ![r] = "live"]
    /\ IF Evaluate(Classification, "C", TRUE, TRUE) # "C"
       THEN Refuse(r, "gate")
       ELSE /\ req' = [req EXCEPT ![r].pc = "releasing"]
            /\ UNCHANGED chainVars

NotApproved(r) ==
    /\ req[r].pc = "approving"
    /\ Refuse(r, "dual-control")
    /\ UNCHANGED receipt

Expire(r) ==
    /\ receipt[r] = "live"
    /\ receipt' = [receipt EXCEPT ![r] = "expired"]
    /\ UNCHANGED <<chainVars, req>>

ReleasesOnAnyReceipt(r) ==
    /\ req[r].pc = "releasing"
    /\ receipt' = [receipt EXCEPT ![r] = "used"]
    /\ Recorded("mode_c_decryption", r, "release")
    /\ req' = [req EXCEPT ![r].pc = IF receipt[r] = "live" THEN "released" ELSE "rejected"]

(* The provider's releaseModeC: the receipt is checked and consumed, then  *)
(* the release is recorded; an append that throws is a rejected release.   *)
GateReleases(r) ==
    /\ req[r].pc = "releasing"
    /\ receipt[r] = "live"
    /\ receipt' = [receipt EXCEPT ![r] = "used"]
    /\ \/ /\ Recorded("mode_c_decryption", r, "release")
          /\ req' = [req EXCEPT ![r].pc = "released"]
       \/ /\ NotRecorded("mode_c_decryption", r, "release")
          /\ req' = [req EXCEPT ![r].pc = "rejected"]
       \/ /\ MayOmit
          /\ req' = [req EXCEPT ![r].pc = "released"]
          /\ UNCHANGED chainVars

GateRejects(r) ==
    /\ req[r].pc = "releasing"
    /\ receipt[r] = "expired"
    /\ req' = [req EXCEPT ![r].pc = "rejected"]
    /\ UNCHANGED <<chainVars, receipt>>

Rejected(r) ==
    /\ req[r].pc = "rejected"
    /\ Refuse(r, "release")
    /\ UNCHANGED receipt

(* Of the last Window records under the head, the decryptions of r.        *)
AnyonesDecryption(r) ==
    {n \in 1..head : n > head - Window /\ log[n].event = "mode_c_decryption"}

ShortWindow(r) ==
    {n \in 1..head : /\ n > head - Window + 1
                     /\ log[n].event = "mode_c_decryption" /\ log[n].of = r}

FindRecord(r) ==
    {n \in 1..head : /\ n > head - Window
                     /\ log[n].event = "mode_c_decryption" /\ log[n].of = r}

(* releaseModeC answered with the values: they are sent only with the      *)
(* record of their release; without one the request is refused.  When the  *)
(* page cannot be read (an anchor's file in it may not parse) it ends.     *)
Released(r) ==
    /\ req[r].pc = "released"
    /\ \/ \E n \in FindRecord(r) :
             /\ \A m \in FindRecord(r) : m =< n
             /\ req' = [req EXCEPT ![r].pc = "done", ![r].status = "released", ![r].release = n]
             /\ UNCHANGED chainVars
       \/ FindRecord(r) = {} /\ Answer(r, "deny", "record")
       \/ /\ RecordsFail
          /\ req' = [req EXCEPT ![r].pc = "done", ![r].status = "500"]
          /\ UNCHANGED chainVars
    /\ UNCHANGED receipt

(* Another handler of the broker appends a record.                         *)
Other ==
    /\ Len(SelectSeq(log, LAMBDA x : x.event = "other")) < MaxOthers
    /\ ~refusing
    /\ log' = Append(log, [event |-> "other"])
    /\ head' = Len(log')
    /\ UNCHANGED <<refusing, req, receipt>>

Handler(r) ==
    \/ Arrive(r)      \/ Inferred(r)     \/ InferenceFailed(r) \/ Attested(r)
    \/ Approved(r)    \/ NotApproved(r)  \/ Released(r)        \/ Rejected(r)

Provider(r) == GateReleases(r) \/ GateRejects(r) \/ Expire(r)

Next ==
    \/ \E r \in Requests : Handler(r) \/ Provider(r)
    \/ Other

Spec == Init /\ [][Next]_vars
-----------------------------------------------------------------------------
Ours(n, r, event, step) ==
    n \in 1..Len(log) /\ log[n] = Entry(event, r, step)

(* "Every answer names its records; nothing returns without one" (fhe.ts): *)
(* an answer that holds the result names the decryption's record of its    *)
(* own request, and before it the record of its own inference.             *)
ResultNamesItsRecords ==
    \A r \in Requests : req[r].status = "released" =>
        /\ Ours(req[r].release, r, "mode_c_decryption", "release")
        /\ Ours(req[r].inference, r, "mode_a_inference", "computed")
        /\ req[r].inference < req[r].release

(* A release refused for its attestation, its receipt or by the gate stays *)
(* sealed: the chain never holds a decryption of a request answered so,    *)
(* and none without the inference it decrypts before it.  When the append  *)
(* of the gate throws with its record on the chain, the log refuses the    *)
(* refusal too, and the answer is 500.                                     *)
RefusedStaysSealed ==
    \A n \in 1..Len(log) : log[n].event = "mode_c_decryption" =>
        LET r == log[n].of IN
        /\ req[r].status \notin {"shape", "denied", "service_error", "endpoint-attestation",
                                 "dual-control", "gate", "release"}
        /\ \E m \in 1..n-1 : Ours(m, r, "mode_a_inference", "computed")

(* findRecord's window: a request told that its release has no record,     *)
(* though it has one, was overtaken by at least Window records.            *)
OvertakenOnly ==
    \A n, m \in 1..Len(log) :
        /\ log[n].event = "mode_c_decryption"
        /\ log[m].event = "deny" /\ log[m].of = log[n].of
        => m - n > Window
=============================================================================
