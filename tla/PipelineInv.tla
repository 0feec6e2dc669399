----------------------------- MODULE PipelineInv -----------------------------
(***************************************************************************)
(* The inductive invariant behind NoFalseAlarm, StateFileMatchesLog and     *)
(* ImplementsChainLog, and the circumstances under which it holds.          *)
(*                                                                         *)
(* NoFalseAlarm alone is not inductive: whether the verifier will accept    *)
(* the next line depends on the worker, the state file and the line on its  *)
(* way.  The invariant therefore speaks of the context the verifier will be *)
(* in once that line is stored, and ties the worker and the file to it.     *)
(***************************************************************************)
EXTENDS Pipeline

(* What may go wrong without the log becoming unverifiable.  A strict run    *)
(* must also not lose a tail: no crash, no tail dropped by process_final, no *)
(* state file missing.                                                       *)
Tolerable ==
    /\ Faults \cap {"sign", "payload", "newsd", "load", "unlink"} = {}
    /\ Opts.key \in Keys
    /\ \A c \in Confs : c.key = Opts.key
    /\ \A c, d \in Confs : c.alg = d.alg /\ c.statefiledir = d.statefiledir
    /\ Opts.strict =>
          /\ Faults \cap {"crash", "final", "save"} = {}
          /\ \A c \in Confs : c.statefiledir

(* The verifier once the line on its way is stored *)
Ahead == IF inhand = NoLine THEN v ELSE VerifierProcessLine(v, inhand)

Running == wrkr # NoWorker /\ wrkr.initialized

(* The worker's chain is where the verifier's is. *)
Synced(ctx, chain_hash, alg, seq, sig_seq_from) ==
    /\ ctx.state = "PROCESSING"
    /\ ctx.alg = alg
    /\ ctx.chain_hash = chain_hash
    /\ ctx.next_seq = seq
    /\ ctx.last_signed_seq + 1 = sig_seq_from

(* A context with nothing to complain about and the right key *)
Content(ctx) ==
    /\ ctx.errors = << >>
    /\ ~ctx.ca /\ ctx.key = conf.key /\ ctx.strict = Opts.strict
    /\ \/ /\ ctx.state = "EXPECT_INIT" /\ ctx.alg = NoAlg
          /\ ctx.next_seq = 1 /\ ctx.last_signed_seq = 0
          /\ ctx.segment_count = 0
       \/ /\ ctx.state = "PROCESSING" /\ ctx.alg = conf.alg
          /\ ctx.chain_hash.alg = conf.alg
          /\ ctx.segment_count > 0

(* Storing the line in hand is one step of the abstract log. *)
LogStep(c, d) ==
    \/ /\ Opts.strict => ~HasUnsigned(c)
       /\ d.segment_count = c.segment_count + 1
       /\ d.next_seq = 2 /\ d.last_signed_seq = 0
    \/ /\ c.segment_count > 0 /\ d.segment_count = c.segment_count
       /\ d.next_seq = c.next_seq + 1
       /\ \/ /\ d.last_signed_seq = c.last_signed_seq
             /\ c.next_seq - c.last_signed_seq <= SignWindow
          \/ d.last_signed_seq = c.next_seq

VerifierContent == Content(v) /\ Content(Ahead)

InHandFits == inhand # NoLine => Running /\ LogStep(v, Ahead)

WorkerSynced ==
    Running =>
        /\ wrkr.chain.alg = conf.alg /\ wrkr.fp = conf.key
        /\ wrkr.sig_seq_from + wrkr.chain.msg_count = wrkr.chain.seq
        /\ IF wrkr.is_first
           THEN wrkr.chain = HashchainInit(conf.alg)
           ELSE Synced(Ahead, wrkr.chain.current, wrkr.chain.alg,
                       wrkr.chain.seq, wrkr.sig_seq_from)

FileSynced ==
    disk # NoState =>
        /\ conf.statefiledir /\ ~Running
        /\ disk.fp = conf.key /\ disk.alg = conf.alg
        /\ Synced(v, disk.chain_hash, disk.alg, disk.seq, disk.sig_seq_from)

PendingIsFile ==
    wrkr # NoWorker =>
        wrkr.pending = IF wrkr.initialized THEN NoState ELSE disk

(* In a strict run only a running chain or a state file owes a signature.    *)
NothingOwed ==
    Opts.strict /\ disk = NoState /\ (Running => wrkr.is_first) =>
        ~HasUnsigned(Ahead)

(* The whole: the log on disk plus the line on its way verifies, and the     *)
(* worker or the state file continues exactly that log.                      *)
IInv ==
    /\ VerifierContent
    /\ InHandFits
    /\ WorkerSynced
    /\ FileSynced
    /\ PendingIsFile
    /\ NothingOwed
-----------------------------------------------------------------------------
(* A state file found is read, one consumed is gone, and every configuration *)
(* would continue it.                                                        *)
OneTail ==
    /\ Faults \cap {"load", "unlink"} = {}
    /\ \A c, d \in Confs :
          c.key = d.key /\ c.alg = d.alg /\ c.statefiledir = d.statefiledir

(* The inductive invariant behind TailHandedOver, whatever the log holds and *)
(* whichever other call fails: a tail is in one place, the file (and a       *)
(* worker that has not started) or a running chain.                          *)
TailInv ==
    /\ PendingIsFile
    /\ Running =>
          disk = NoState /\ wrkr.fp = conf.key /\ wrkr.chain.alg = conf.alg
    /\ disk # NoState =>
          conf.statefiledir /\ disk.fp = conf.key /\ disk.alg = conf.alg
=============================================================================
