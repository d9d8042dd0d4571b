-------------------------- MODULE AnchorScheduler --------------------------
(***************************************************************************)
(* packages/providence-log/src/scheduler.ts over exportAnchor of log.ts,   *)
(* with the start and the stop of the broker around them.                  *)
(*                                                                         *)
(* The log is at the grain of its callers: an append takes effect whole    *)
(* (ProvidenceLog and ProvidenceChain justify it), and only exportAnchor   *)
(* yields, while it awaits the signer.  Every step here is one run of the  *)
(* event loop up to the next await.                                        *)
(***************************************************************************)
EXTENDS Integers

CONSTANTS MaxSeq,       \* bound on the records of the chain
          MaxQueue,     \* bound on the anchor runs waiting on inFlight
          MaxHandlers,  \* bound on the requests in progress
          MaxPolls      \* polls of the gateway before its deadline passes

ASSUME SchedulerAssumption ==
    /\ MaxSeq \in Nat
    /\ MaxQueue \in Nat \ {0}
    /\ MaxHandlers \in Nat
    /\ MaxPolls \in Nat \ {0}

VARIABLES seq,          \* records of the chain: the head's seq
          since,        \* recordsSinceStart
          refusing,     \* the log has a refusal
          diverged,     \* head and chain disagree on disk: a restart refuses
          anchors,      \* the head_seq's of the files under anchors/
          last,         \* lastAnchoredSeq
          queue,        \* anchor runs waiting on the inFlight promise
          signing,      \* head_seq of the anchor being signed, or NoSeq
          phase,        \* where the process is, from its start to its end
          polls,        \* times the gateway was asked whether it is live
          listen,       \* of server.listen: none, pending, done
          handlers,     \* requests the server's close waits for
          orphans,      \* handlers whose client has gone, which it does not
          stopSeq       \* history: the head when stop() was called

logVars   == <<seq, since, refusing, diverged, anchors>>
schedVars == <<last, queue, signing>>
procVars  == <<phase, polls, listen>>
reqVars   == <<handlers, orphans>>
vars == <<logVars, schedVars, procVars, reqVars, stopSeq>>

NoSeq == -1

Closing == {"draining", "releasing", "stopping"}
Alive   == {"starting", "listening", "up"} \cup Closing
Phases  == Alive \cup {"exited", "down"}

TypeOK ==
    /\ seq \in 0..MaxSeq
    /\ since \in 0..MaxSeq
    /\ refusing \in BOOLEAN
    /\ diverged \in BOOLEAN
    /\ anchors \subseteq 0..MaxSeq
    /\ last \in 0..MaxSeq \cup {NoSeq}
    /\ queue \in Nat
    /\ signing \in 0..MaxSeq \cup {NoSeq}
    /\ phase \in Phases
    /\ polls \in 0..MaxPolls
    /\ listen \in {"none", "pending", "done"}
    /\ handlers \in Nat
    /\ orphans \in Nat
    /\ stopSeq \in 0..MaxSeq

Init ==
    /\ seq = 0
    /\ since = 0
    /\ refusing = FALSE
    /\ diverged = FALSE
    /\ anchors = {}
    /\ last = NoSeq
    /\ queue = 0
    /\ signing = NoSeq
    /\ phase = "starting"
    /\ polls = 0
    /\ listen = "none"
    /\ handlers = 0
    /\ orphans = 0
    /\ stopSeq = 0

-----------------------------------------------------------------------------
(* Requests.                                                               *)

Arrive ==
    /\ phase = "up"
    /\ handlers + orphans < MaxHandlers
    /\ handlers' = handlers + 1
    /\ UNCHANGED <<logVars, schedVars, procVars, orphans, stopSeq>>

Disconnect ==
    /\ phase \in Alive
    /\ handlers > 0
    /\ handlers' = handlers - 1
    /\ orphans' = orphans + 1
    /\ UNCHANGED <<logVars, schedVars, procVars, stopSeq>>

(* A durable append; the listener of start() asks for an anchor after the  *)
(* first one of this process.                                              *)
Appended ==
    /\ ~refusing
    /\ seq < MaxSeq
    /\ seq' = seq + 1
    /\ since' = since + 1
    /\ queue' = IF since' = 1 THEN queue + 1 ELSE queue
    /\ UNCHANGED <<refusing, diverged>>

(* An append that cannot be made durable; the disk may be left disagreeing.*)
AppendFailed ==
    /\ ~refusing
    /\ refusing' = TRUE
    /\ diverged' \in BOOLEAN
    /\ UNCHANGED <<seq, since, queue>>

AppendRefused ==
    /\ refusing
    /\ UNCHANGED <<seq, since, refusing, diverged, queue>>

(* A handler reaches its append and answers.                               *)
Finish ==
    /\ phase \in Alive
    /\ \/ handlers > 0 /\ handlers' = handlers - 1 /\ UNCHANGED orphans
       \/ orphans > 0 /\ orphans' = orphans - 1 /\ UNCHANGED handlers
    /\ Appended \/ AppendFailed \/ AppendRefused
    /\ UNCHANGED <<anchors, last, signing, procVars, stopSeq>>

-----------------------------------------------------------------------------
(* The scheduler.                                                          *)

(* The interval timer; stop() clears it.                                   *)
Tick ==
    /\ phase \in Alive \ {"stopping"}
    /\ queue < MaxQueue
    /\ queue' = queue + 1
    /\ UNCHANGED <<logVars, last, signing, procVars, reqVars, stopSeq>>

HeadMoved == seq # last

AnchorsAhead ==
    /\ phase \in Alive
    /\ queue > 0
    /\ signing = NoSeq
    /\ queue' = queue - 1
    /\ signing' = IF ~refusing /\ HeadMoved THEN seq + 1 ELSE NoSeq
    /\ UNCHANGED <<logVars, last, procVars, reqVars, stopSeq>>

RetriesRefused ==
    /\ phase \in Alive
    /\ queue > 0
    /\ signing = NoSeq
    /\ queue' = IF refusing THEN queue ELSE queue - 1
    /\ signing' = IF ~refusing /\ HeadMoved THEN seq ELSE NoSeq
    /\ UNCHANGED <<logVars, last, procVars, reqVars, stopSeq>>

(* The next run, once the one before it has settled, up to the signer.     *)
RunAnchor ==
    /\ phase \in Alive
    /\ queue > 0
    /\ signing = NoSeq
    /\ queue' = queue - 1
    /\ signing' = IF ~refusing /\ HeadMoved THEN seq ELSE NoSeq
    /\ UNCHANGED <<logVars, last, procVars, reqVars, stopSeq>>

RemembersNext ==
    /\ signing # NoSeq
    /\ anchors' = anchors \cup {signing}
    /\ last' = signing + 1
    /\ signing' = NoSeq
    /\ UNCHANGED <<seq, since, refusing, diverged, queue, procVars, reqVars, stopSeq>>

(* The signer answered: the anchor is written over the head captured       *)
(* before it was asked.                                                    *)
AnchorWritten ==
    /\ phase \in Alive
    /\ signing # NoSeq
    /\ anchors' = anchors \cup {signing}
    /\ last' = signing
    /\ signing' = NoSeq
    /\ UNCHANGED <<seq, since, refusing, diverged, queue, procVars, reqVars, stopSeq>>

KeepsAccepting ==
    /\ signing # NoSeq
    /\ signing' = NoSeq
    /\ UNCHANGED <<logVars, last, queue, procVars, reqVars, stopSeq>>

(* The signer, or the write of the anchor, failed: refuseFrom.             *)
AnchorFailed ==
    /\ phase \in Alive
    /\ signing # NoSeq
    /\ refusing' = TRUE
    /\ signing' = NoSeq
    /\ UNCHANGED <<seq, since, diverged, anchors, last, queue, procVars, reqVars, stopSeq>>

-----------------------------------------------------------------------------
(* The process.                                                            *)

(* However the process ends, what it had in memory is gone.                *)
Ends(how) ==
    /\ phase' = how
    /\ queue' = 0
    /\ signing' = NoSeq
    /\ handlers' = 0
    /\ orphans' = 0
    /\ listen' = "none"
    /\ UNCHANGED <<logVars, last, polls, stopSeq>>

(* buildServer from the start of the scheduler on: the gateway is asked    *)
(* until it is live or its deadline passes, and then the rest is built and *)
(* the server told to listen.  What throws here ends the process.          *)
Build ==
    /\ phase = "starting"
    /\ polls < MaxPolls
    /\ polls' = polls + 1
    /\ \/ /\ phase' = "listening"
          /\ listen' = "pending"
       \/ UNCHANGED <<phase, listen>>
    /\ UNCHANGED <<logVars, schedVars, reqVars, stopSeq>>

StartFails == phase = "starting" /\ Ends("down")

Listens ==
    /\ listen = "pending"
    /\ listen' = "done"
    /\ phase' = IF phase = "listening" THEN "up" ELSE phase
    /\ UNCHANGED <<logVars, schedVars, polls, reqVars, stopSeq>>

(* The exit does not wait for a close that a signal has begun.             *)
ListenFails == listen = "pending" /\ Ends("down")

(* A signal: no new request is taken, and the close waits for the others.  *)
Close ==
    /\ phase \in {"listening", "up"}
    /\ phase' = "draining"
    /\ UNCHANGED <<logVars, schedVars, polls, listen, reqVars, stopSeq>>

(* The onClose hooks run last to first: the gate is closed, and what that  *)
(* throws is caught.                                                       *)
Drained ==
    /\ phase = "draining"
    /\ handlers = 0
    /\ phase' = "releasing"
    /\ UNCHANGED <<logVars, schedVars, polls, listen, reqVars, stopSeq>>

StopsAtOnce ==
    /\ phase = "releasing"
    /\ phase' = "stopping"
    /\ stopSeq' = seq
    /\ UNCHANGED <<logVars, schedVars, polls, listen, reqVars>>

(* Then stop() clears the timer and queues a last run.                     *)
Stop ==
    /\ phase = "releasing"
    /\ phase' = "stopping"
    /\ queue' = queue + 1
    /\ stopSeq' = seq
    /\ UNCHANGED <<logVars, last, signing, polls, listen, reqVars>>

Exit ==
    /\ phase = "stopping"
    /\ queue = 0
    /\ signing = NoSeq
    /\ Ends("exited")

(* A kill, or a second signal.                                             *)
Kill == phase \in Alive /\ Ends("down")

Restart ==
    /\ phase \in {"down", "exited"}
    /\ phase' = "starting"
    /\ polls' = 0
    /\ since' = 0
    /\ refusing' = diverged
    /\ last' = NoSeq
    /\ UNCHANGED <<seq, diverged, anchors, queue, signing, listen, reqVars, stopSeq>>

Next ==
    \/ Arrive \/ Disconnect \/ Finish
    \/ Tick \/ RunAnchor \/ AnchorWritten \/ AnchorFailed
    \/ Build \/ StartFails \/ Listens \/ ListenFails
    \/ Close \/ Drained \/ Stop \/ Exit \/ Kill \/ Restart

(* The event loop runs what is due, the interval timer keeps firing, the   *)
(* signer answers one way or the other, a poll of the gateway has a timeout*)
(* and the closing of the gate settles.                                    *)
Fairness ==
    /\ WF_vars(Tick)
    /\ WF_vars(RunAnchor)
    /\ WF_vars(AnchorWritten \/ AnchorFailed)
    /\ WF_vars(Finish)
    /\ WF_vars(Build)
    /\ WF_vars(polls = MaxPolls /\ StartFails)
    /\ WF_vars(Drained)
    /\ WF_vars(Stop)
    /\ WF_vars(Exit)

Spec == Init /\ [][Next]_vars /\ Fairness

-----------------------------------------------------------------------------
(* Anchors follow the chain: an anchor is over a head the chain had, and   *)
(* none is written behind one already there, through every restart, though *)
(* its head is captured before the signer is asked and it is written after.*)
AnchorsInOrder ==
    /\ \A a \in anchors : a <= seq
    /\ signing # NoSeq => signing <= seq /\ \A a \in anchors : a <= signing

(* A clean stop leaves every record that was there when stop() ran under   *)
(* an anchor, or a log that had stopped recording.                         *)
StopAnchorsHead ==
    phase = "exited" => refusing \/ \E a \in anchors : a >= stopSeq

(* Every record comes under an anchor, also one an earlier process left    *)
(* behind, unless the log refuses or the process ends without its close.   *)
RecordsGetAnchored ==
    \A n \in 1..MaxSeq :
        phase \in {"starting", "listening", "up"} /\ seq >= n ~>
            (\E a \in anchors : a >= n) \/ refusing \/ phase = "down"

(* A start comes to its end, though the gateway never is live; and a close *)
(* does, whenever the signal came and however many runs it waits for.      *)
StartAndCloseEnd ==
    /\ phase = "starting" ~> phase \in {"listening", "down"}
    /\ phase = "draining" ~> phase \in {"exited", "down"}
=============================================================================
