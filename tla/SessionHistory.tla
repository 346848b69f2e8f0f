---------------------------- MODULE SessionHistory ----------------------------
(***************************************************************************)
(* What a session store promises its callers (pkg/memory/store.go and      *)
(* pkg/session/session_store.go): one session is a sequence of messages    *)
(* and a summary, each operation is atomic, and an operation that is       *)
(* interrupted (a crash, or an I/O error returned to the caller) has one   *)
(* of a few named effects:                                                 *)
(*   - an interrupted append may or may not have happened, and may leave   *)
(*     the log torn, in which case the next append is swallowed;           *)
(*   - an interrupted replacement or compaction changes nothing, except    *)
(*     that messages already truncated may come back in front.             *)
(* JsonlStore implements this specification (StoreKeepsPromise).           *)
(***************************************************************************)
EXTENDS Integers, Sequences

CONSTANTS
  Msg,        \* messages
  Summary,    \* values of the conversation summary, "" included
  SetArgs,    \* the histories SetHistory is called with
  KeepArgs    \* the values of keepLast TruncateHistory is called with

VARIABLES
  gone,       \* messages truncated but not yet reclaimed, oldest first
  hist,       \* the messages GetHistory returns
  summary,    \* the summary GetSummary returns
  torn        \* an interrupted append left the log's last line open

hvars == <<gone, hist, summary, torn>>

Least(a, b) == IF a <= b THEN a ELSE b

\* The last n elements of a sequence, and all but the last n.
LastN(s, n)    == SubSeq(s, Len(s) - n + 1, Len(s))
AllButLast(s, n) == SubSeq(s, 1, Len(s) - n)

HInit ==
  /\ gone = <<>> /\ hist = <<>> /\ summary = "" /\ torn = FALSE

\* AddMessage / AddFullMessage on an intact log.
HAdd(m) ==
  /\ ~torn
  /\ hist' = Append(hist, m)
  /\ UNCHANGED <<gone, summary, torn>>

\* The newest message of the log, visible or truncated, is destroyed when a
\* torn log is appended to, if it was the one whose line was left open.
LoseNewest ==
  \/ UNCHANGED <<gone, hist>>
  \/ hist # <<>> /\ hist' = AllButLast(hist, 1) /\ UNCHANGED gone
  \/ hist = <<>> /\ gone # <<>> /\ gone' = AllButLast(gone, 1) /\ UNCHANGED hist

\* An append to a torn log: the message shares a line with the torn one.
HAddSwallowed ==
  /\ torn
  /\ LoseNewest
  /\ torn' = FALSE
  /\ UNCHANGED summary

\* An append that crashed or returned an error.
HAddInterrupted(m) ==
  /\ torn' \in BOOLEAN
  /\ \/ ~torn /\ hist' = Append(hist, m) /\ UNCHANGED gone
     \/ ~torn /\ torn' /\ UNCHANGED <<gone, hist>>
     \/ torn /\ LoseNewest
  /\ UNCHANGED summary

\* At most k messages remain; fewer only if corrupt lines were counted.
HTruncate(k) ==
  /\ \E j \in 0 .. Least(k, Len(hist)) :
       /\ hist' = LastN(hist, j)
       /\ gone' = gone \o AllButLast(hist, j)
  /\ UNCHANGED <<summary, torn>>

HSet(h) ==
  /\ hist' = h /\ gone' = <<>> /\ torn' = FALSE
  /\ UNCHANGED summary

HSetSummary(s) ==
  /\ summary' = s
  /\ UNCHANGED <<gone, hist, torn>>

\* Compact reclaims the truncated messages and repairs the log.
HCompact ==
  /\ gone' = <<>> /\ torn' = FALSE
  /\ UNCHANGED <<hist, summary>>

\* An interrupted SetHistory or Compact: truncated messages come back.
HResurrect ==
  /\ hist' = gone \o hist /\ gone' = <<>>
  /\ UNCHANGED <<summary, torn>>

HNext ==
  \/ \E m \in Msg : HAdd(m) \/ HAddInterrupted(m)
  \/ HAddSwallowed
  \/ \E k \in KeepArgs : HTruncate(k)
  \/ \E h \in SetArgs : HSet(h)
  \/ \E s \in Summary : HSetSummary(s)
  \/ HCompact
  \/ HResurrect

HSpec == HInit /\ [][HNext]_hvars
===============================================================================
