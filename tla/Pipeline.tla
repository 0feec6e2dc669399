------------------------------ MODULE Pipeline -------------------------------
(***************************************************************************)
(* The signer, the action that stores its lines, and the verification       *)
(* engine reading the stored log.  The engine is deterministic and reads    *)
(* line by line, so its context `v' after the lines stored so far says what *)
(* mmhashchainsigs-verify finds in the log at this moment.  Nobody touches  *)
(* the log: whatever the verifier reports here, it reports of an honest one. *)
(***************************************************************************)
EXTENDS Signer, VerifierCtx

CONSTANTS
    Opts,       \* how the verifier is started
    MaxLog      \* bound: how many lines are stored

ASSUME PipelineAssumption == Opts \in VOpts /\ MaxLog \in Nat

VARIABLES
    log,        \* the stored lines, in order
    v           \* the verifier's context after them

vars == <<conf, wrkr, disk, inhand, log, v>>

FailsOf(points) == SUBSET (Faults \cap points)

ActionFails ==
    FailsOf({"init", "final", "hash", "sign", "payload", "newsd", "cert", "unlink"})

(* The following action of the ruleset stores the line (external: omfile, or *)
(* omrelp and the receiver's omfile).                                        *)
Store ==
    /\ HandOver
    /\ log' = Append(log, inhand)
    /\ v' = VerifierProcessLine(v, inhand)

Sign(m) ==
    /\ Len(log) < MaxLog
    /\ \E fails \in ActionFails : DoAction(m, fails)
    /\ UNCHANGED <<log, v>>

SignTail ==
    /\ Len(log) < MaxLog
    /\ \E fails \in FailsOf({"hash", "sign"}) : FinalSign(fails)
    /\ UNCHANGED <<log, v>>

Start == \E fails \in FailsOf({"load"}) : CreateWorker(fails) /\ UNCHANGED <<log, v>>

Stop == \E fails \in FailsOf({"save"}) : FreeWorker(fails) /\ UNCHANGED <<log, v>>

Kill == Crash /\ UNCHANGED <<log, v>>

Rewrite == Reconfigure /\ UNCHANGED <<log, v>>

Init ==
    /\ SignerInit
    /\ log = << >>
    /\ v = VerifierInit(Opts)

Next ==
    \/ \E m \in Msgs : Sign(m)
    \/ SignTail
    \/ Store
    \/ Start
    \/ Stop
    \/ Kill
    \/ Rewrite

Spec == Init /\ [][Next]_vars

(* rsyslog starts the worker, feeds it messages as long as there are any and *)
(* runs the actions of the ruleset one after the other.                      *)
Fairness ==
    /\ WF_vars(Start)
    /\ WF_vars(Store)
    /\ SF_vars(\E m \in Msgs : Sign(m) /\ inhand' # NoLine)

FairSpec == Spec /\ Fairness

-----------------------------------------------------------------------------
(* Every variable of the composition has its type: no interleaving leaves    *)
(* the worker, the state file or the verifier's context undefined.           *)
TypeOK ==
    /\ SignerTypeOK
    /\ log \in Seq(Line)
    /\ VCtxOK(v)

(* Counters of an initialised worker agree: sig_seq_from, the first entry    *)
(* the next SIG covers, is msg_count entries behind chain.seq.  save_state   *)
(* stores the first two and process_msg decides by the third, so a drift     *)
(* would make SIG ranges overlap or skip entries.                            *)
CountersAgree ==
    wrkr # NoWorker /\ wrkr.initialized =>
        wrkr.sig_seq_from + wrkr.chain.msg_count = wrkr.chain.seq

(* The verifier finds nothing to report in a log nobody tampered with,       *)
(* through restarts, crashes and failing calls.                              *)
NoFalseAlarm == VerifierPassed(v)

(* A state file always describes where the stored log stops: the entry that  *)
(* process_final will append is the one the verifier expects next, and its   *)
(* SIG range starts where the last signature ended.  A file left over from   *)
(* an earlier run would break this long before anything notices.             *)
StateFileMatchesLog ==
    disk # NoState /\ inhand = NoLine =>
        /\ v.state = "PROCESSING"
        /\ disk.chain_hash = v.chain_hash
        /\ disk.seq = v.next_seq
        /\ disk.sig_seq_from = v.last_signed_seq + 1

(* A state file is only given up in exchange for the SIG line that covers    *)
(* everything it was kept for, under the key that wrote it (README, graceful *)
(* shutdown; process_msg lines 54-67).                                       *)
SignsSavedTail(st, line) ==
    /\ line # NoLine /\ line.sd # NoSD
    /\ line.sd.type = "SIG" /\ line.sd.qf = st.sig_seq_from
    /\ line.sd.q = st.seq /\ line.sd.qt = st.seq
    /\ line.sd.s = HcsSign(st.fp, line.sd.h)

TailHandedOver ==
    [][disk # NoState /\ disk' # disk => SignsSavedTail(disk, inhand')]_vars

(* What the log promises a reader: segments that grow one entry at a time,   *)
(* signed up to a bounded window; before a new segment everything is signed  *)
(* if the run admits no crash.                                               *)
SignWindow == IF SignInterval > 2 THEN SignInterval - 1 ELSE 1

CL == INSTANCE ChainLog WITH
          segments <- v.segment_count, len <- v.next_seq - 1,
          signed <- v.last_signed_seq,
          Window <- SignWindow, Sealed <- Opts.strict

ImplementsChainLog == CL!Spec

(* A tail saved at a graceful stop is eventually signed, however often the   *)
(* worker restarts before a message arrives.                                 *)
SavedTailEventuallySigned ==
    disk # NoState /\ Len(log) < MaxLog ~> ~HasUnsigned(v)
=============================================================================
