------------------------------- MODULE Signer --------------------------------
(***************************************************************************)
(* The signing side: the mmhashchainsigs worker inside rsyslog              *)
(* (src/mmhashchainsigs/mmhashchainsigs.c), from createWrkrInstance to      *)
(* freeWrkrInstance, with the state file that carries an unsigned tail over *)
(* a graceful restart.  One step of this module is one call of an entry     *)
(* point; a failure of a call inside it is a member of `fails', and the     *)
(* constant Faults says which calls may fail at all.                        *)
(***************************************************************************)
EXTENDS SDRecord

CONSTANTS
    Confs,          \* configurations the administrator may install
    SignInterval,   \* signinterval
    Standalone,     \* TRUE: a caller of the standalone API may final_sign
    Faults,         \* which of FaultPoints may happen
    MaxSeq,         \* bound: no chain gets longer than this many entries
    NoChain,        \* chain context of a worker that is not initialised
    NoState,        \* no state file, or no pending state
    NoWorker,       \* no worker instance
    NoLine          \* nothing between doAction and the storing action

(* Calls that can fail, by the place that handles the failure.               *)
FaultPoints == {
    "crash",        \* the process is killed
    "init",         \* signer_init, signer_init_x509 (line 30)
    "final",        \* update or sign inside process_final (lines 202, 212)
    "hash",         \* hashchain_update in process_msg, final_sign
    "sign",         \* signer_sign in process_msg, final_sign
    "payload",      \* an allocation of doAction before process_msg
    "newsd",        \* malloc(new_len + 1) after process_msg (line 683)
    "cert",         \* signer_get_cert_der or hcs_format_sd_cert
    "load",         \* mmhashchainsigs_load_state returns NULL
    "save",         \* mmhashchainsigs_save_state returns -1
    "unlink" }      \* unlink in mmhashchainsigs_delete_state

Conf == [key : Keys, alg : Algs, embedcert : BOOLEAN, statefiledir : BOOLEAN]

ASSUME SignerAssumption ==
    /\ Confs \subseteq Conf /\ Confs # {}
    /\ SignInterval \in Nat \ {0}
    /\ Standalone \in BOOLEAN
    /\ Faults \subseteq FaultPoints
    /\ MaxSeq \in Nat

SavedState == [chain_hash : Digest, alg : Algs, seq : Nat,
               sig_seq_from : Nat, fp : Keys]

Worker == [initialized : BOOLEAN, is_first : BOOLEAN,
           chain : Chain \cup {NoChain}, sig_seq_from : Nat,
           fp : Keys \cup {NoKey}, pending : SavedState \cup {NoState}]

ASSUME AbsentStateAssumption ==
    /\ NoChain \notin Chain /\ NoState \notin SavedState
    /\ NoWorker \notin Worker /\ NoLine \notin Line

VARIABLES
    conf,       \* the action's configuration (mmhashchainsigs_instance_t)
    wrkr,       \* the worker instance (mmhashchainsigs_worker_t)
    disk,       \* the file mmhashchainsigs.state
    inhand      \* the line doAction produced, not yet stored

signerVars == <<conf, wrkr, disk, inhand>>

-----------------------------------------------------------------------------
(* What the entry points compute *)

(* Mutants of InitWorker: the range starts at 0; the key is not recorded.    *)
InitWorkerFromZero(w) ==
    [w EXCEPT !.chain = HashchainInit(conf.alg), !.fp = conf.key,
              !.sig_seq_from = 0, !.initialized = TRUE, !.is_first = TRUE]

InitWorkerWithoutKey(w) ==
    [w EXCEPT !.chain = HashchainInit(conf.alg),
              !.sig_seq_from = 1, !.initialized = TRUE, !.is_first = TRUE]

(* mmhashchainsigs_init *)
InitWorker(w) ==
    [w EXCEPT !.chain = HashchainInit(conf.alg), !.fp = conf.key,
              !.sig_seq_from = 1, !.initialized = TRUE, !.is_first = TRUE]

(* mmhashchainsigs_process_final: the worker afterwards and the element,     *)
(* NoSD when it returns -1 or -2.                                            *)
ProcessFinal(w, st, m, fails) ==
    LET restored == [HashchainInit(st.alg) EXCEPT !.current = st.chain_hash,
                                                  !.seq = st.seq]
        c == HashchainUpdate(restored, m)
        fresh == [w EXCEPT !.chain = HashchainInit(conf.alg)]
    IN  CASE st.fp # w.fp \/ st.alg # conf.alg -> [w |-> w, sd |-> NoSD]
          [] st.fp = w.fp /\ st.alg = conf.alg /\ "final" \in fails ->
               [w |-> fresh, sd |-> NoSD]
          [] OTHER ->
               [w |-> [fresh EXCEPT !.is_first = TRUE, !.sig_seq_from = 1],
                sd |-> SDSig(c.seq - 1, c.current, st.sig_seq_from, c.seq - 1,
                             HcsSign(w.fp, c.current))]

(* mmhashchainsigs_process_msg from line 70 on, when hashchain_update        *)
(* succeeded: the entry is in the chain before it is known to be signed.     *)
SigIsDueLate(w) == ~w.is_first /\ w.chain.msg_count >= SignInterval \* a mutant

SigIsDue(w) == ~w.is_first /\ w.chain.msg_count + 1 >= SignInterval

NextEntry(w, m, fails) ==
    LET c == HashchainUpdate(w.chain, m)
        seq == c.seq - 1
    IN  CASE w.is_first ->
               [w |-> [w EXCEPT !.chain = c, !.is_first = FALSE],
                sd |-> SDInit(seq, c.current, w.fp)]
          [] SigIsDue(w) /\ "sign" \in fails ->
               [w |-> [w EXCEPT !.chain = c], sd |-> NoSD]
          [] SigIsDue(w) /\ "sign" \notin fails ->
               [w |-> [w EXCEPT !.chain = HashchainResetCount(c),
                                !.sig_seq_from = seq + 1],
                sd |-> SDSig(seq, c.current, w.sig_seq_from, seq,
                             HcsSign(w.fp, c.current))]
          [] OTHER ->
               [w |-> [w EXCEPT !.chain = c], sd |-> SDMsg(seq, c.current)]

(* A line with this element; only an INIT element brings the certificate.    *)
LineOf(sd, m, fails) ==
    [sd |-> sd, msg |-> m,
     cert |-> IF sd.type = "INIT" /\ conf.embedcert /\ "cert" \notin fails
              THEN conf.key ELSE NoKey]

(* Mutants: the file holds the last entry's number instead of the next one;  *)
(* a tail of one entry is not saved.                                         *)
StateOfLastEntry(w) == [chain_hash |-> w.chain.current, alg |-> w.chain.alg,
                        seq |-> w.chain.seq - 1,
                        sig_seq_from |-> w.sig_seq_from, fp |-> w.fp]

HasLongTail(w) == w.initialized /\ w.chain.msg_count > 1

(* mmhashchainsigs_save_state's file, and when it writes one *)
StateOf(w) == [chain_hash |-> w.chain.current, alg |-> w.chain.alg,
               seq |-> w.chain.seq, sig_seq_from |-> w.sig_seq_from,
               fp |-> w.fp]

HasUnsignedTail(w) == w.initialized /\ w.chain.msg_count > 0

KeepState(fails) == UNCHANGED disk \* a mutant of DeleteState

(* mmhashchainsigs_delete_state; unlink's result is ignored *)
DeleteState(fails) ==
    disk' = IF conf.statefiledir /\ "unlink" \notin fails THEN NoState ELSE disk

-----------------------------------------------------------------------------
(* doAction, by the path it takes *)

InAction ==
    /\ wrkr # NoWorker /\ inhand = NoLine
    /\ wrkr.initialized => wrkr.chain.seq <= MaxSeq

(* What rsyslog does with the message when doAction returns out of memory:   *)
(* the action is done with it, and the message goes on as it came, or not.   *)
PassUnsigned(m) ==
    inhand' \in {NoLine, [sd |-> NoSD, cert |-> NoKey, msg |-> m]}

(* Hand the enriched message on, unless the last allocation fails.           *)
Deliver(sd, m, fails) ==
    IF "newsd" \in fails THEN PassUnsigned(m)
                         ELSE inhand' = LineOf(sd, m, fails)

(* The worker once mmhashchainsigs_init has succeeded, if it had to run      *)
Ready == IF wrkr.initialized THEN wrkr ELSE InitWorker(wrkr)

(* No memory for the payload: the chain is not touched (lines 619-666).      *)
PayloadFails(m, fails) ==
    /\ "payload" \in fails
    /\ PassUnsigned(m)
    /\ UNCHANGED <<conf, wrkr, disk>>

(* mmhashchainsigs_init fails: suspended, nothing is consumed (lines 48-52). *)
InitFails(fails) ==
    /\ "payload" \notin fails /\ "init" \in fails /\ ~wrkr.initialized
    /\ UNCHANGED signerVars

CanStart(fails) ==
    "payload" \notin fails /\ (wrkr.initialized \/ "init" \notin fails)

(* A pending state is consumed and its chain gets its last entry (54-67).    *)
FinishOldChain(m, fails) ==
    LET final == ProcessFinal([Ready EXCEPT !.pending = NoState],
                              wrkr.pending, m, fails)
    IN  /\ CanStart(fails) /\ wrkr.pending # NoState /\ final.sd # NoSD
        /\ wrkr' = final.w
        /\ DeleteState(fails)
        /\ Deliver(final.sd, m, fails)
        /\ UNCHANGED conf

(* The chain the message goes to when no old chain takes it: a pending state *)
(* that process_final refused is gone, its file too.                         *)
Current(m, fails) ==
    IF wrkr.pending = NoState THEN Ready
    ELSE ProcessFinal([Ready EXCEPT !.pending = NoState],
                      wrkr.pending, m, fails).w

GoesToCurrent(m, fails) ==
    /\ CanStart(fails)
    /\ wrkr.pending # NoState =>
           ProcessFinal([Ready EXCEPT !.pending = NoState],
                        wrkr.pending, m, fails).sd = NoSD
    /\ IF wrkr.pending = NoState THEN UNCHANGED disk ELSE DeleteState(fails)
    /\ UNCHANGED conf

(* hashchain_update fails: suspended (lines 70-72).                          *)
HashFails(m, fails) ==
    /\ GoesToCurrent(m, fails) /\ "hash" \in fails
    /\ wrkr' = Current(m, fails)
    /\ UNCHANGED inhand

(* The message becomes an INIT, SIG or MSG entry, or signing it fails and    *)
(* doAction suspends (lines 70-136).                                         *)
ExtendChain(m, fails) ==
    LET entry == NextEntry(Current(m, fails), m, fails)
    IN  /\ GoesToCurrent(m, fails) /\ "hash" \notin fails
        /\ wrkr' = entry.w
        /\ IF entry.sd = NoSD THEN UNCHANGED inhand
                              ELSE Deliver(entry.sd, m, fails)

DoAction(m, fails) ==
    /\ InAction
    /\ \/ PayloadFails(m, fails)
       \/ InitFails(fails)
       \/ FinishOldChain(m, fails)
       \/ HashFails(m, fails)
       \/ ExtendChain(m, fails)

-----------------------------------------------------------------------------
(* mmhashchainsigs_final_sign: an empty entry that signs the tail.  Only a   *)
(* caller of the standalone API does this; the rsyslog module never does.    *)
FinalSign(fails) ==
    LET c == HashchainUpdate(wrkr.chain, EmptyMsg)
        seq == c.seq - 1
        sd == SDSig(seq, c.current, wrkr.sig_seq_from, seq,
                    HcsSign(wrkr.fp, c.current))
    IN  /\ Standalone /\ InAction /\ HasUnsignedTail(wrkr)
        /\ "hash" \notin fails
        /\ IF "sign" \in fails
           THEN wrkr' = [wrkr EXCEPT !.chain = c] /\ UNCHANGED inhand
           ELSE /\ wrkr' = [wrkr EXCEPT !.chain = HashchainResetCount(c),
                                        !.sig_seq_from = seq + 1]
                /\ inhand' = LineOf(sd, EmptyMsg, fails)
        /\ UNCHANGED <<conf, disk>>

(* A mutant of CreateWorker: the state file is not looked for.               *)
CreateBlankWorker(fails) ==
    /\ wrkr = NoWorker
    /\ wrkr' = [initialized |-> FALSE, is_first |-> FALSE, chain |-> NoChain,
                sig_seq_from |-> 0, fp |-> NoKey, pending |-> NoState]
    /\ UNCHANGED <<conf, disk, inhand>>

(* createWrkrInstance of the one worker *)
CreateWorker(fails) ==
    /\ wrkr = NoWorker
    /\ wrkr' = [initialized |-> FALSE, is_first |-> FALSE, chain |-> NoChain,
                sig_seq_from |-> 0, fp |-> NoKey,
                pending |-> IF conf.statefiledir /\ "load" \notin fails
                            THEN disk ELSE NoState]
    /\ UNCHANGED <<conf, disk, inhand>>

(* freeWrkrInstance: mmhashchainsigs_save_state, mmhashchainsigs_free.       *)
FreeWorker(fails) ==
    /\ wrkr # NoWorker /\ inhand = NoLine
    /\ disk' = IF conf.statefiledir /\ HasUnsignedTail(wrkr)
                  /\ "save" \notin fails
               THEN StateOf(wrkr) ELSE disk
    /\ wrkr' = NoWorker
    /\ UNCHANGED <<conf, inhand>>

(* The process is killed: what is in memory is lost.                         *)
Crash ==
    /\ "crash" \in Faults /\ wrkr # NoWorker
    /\ wrkr' = NoWorker /\ inhand' = NoLine
    /\ UNCHANGED <<conf, disk>>

(* While rsyslog is down its configuration may be replaced.                  *)
Reconfigure ==
    /\ wrkr = NoWorker
    /\ conf' \in Confs
    /\ UNCHANGED <<wrkr, disk, inhand>>

(* The action after this one (omfile, omrelp) takes the line.                *)
HandOver == inhand # NoLine /\ inhand' = NoLine /\ UNCHANGED <<conf, wrkr, disk>>

SignerInit ==
    /\ conf \in Confs
    /\ wrkr = NoWorker /\ disk = NoState /\ inhand = NoLine

-----------------------------------------------------------------------------
(* The type of the signer's state: no handler leaves a field undefined.      *)
SignerTypeOK ==
    /\ conf \in Confs
    /\ wrkr \in Worker \cup {NoWorker}
    /\ disk \in SavedState \cup {NoState}
    /\ inhand \in Line \cup {NoLine}
    /\ wrkr # NoWorker /\ wrkr.initialized =>
           wrkr.chain # NoChain /\ wrkr.fp # NoKey
=============================================================================
