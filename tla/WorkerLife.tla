----------------------------- MODULE WorkerLife ------------------------------
(***************************************************************************)
(* The life of the module's worker inside the rsyslog process, call by      *)
(* call: the gate that admits one worker (createWrkrInstance), what doAction *)
(* and mmhashchainsigs_init allocate and give back on every path, and the   *)
(* files save_state, load_state and delete_state leave behind when the      *)
(* process is killed or the power fails between two system calls.           *)
(*                                                                         *)
(* A step is one call that can fail, or the release that follows it.  The   *)
(* module Signer takes these calls in larger steps; this one looks at what  *)
(* is between them.                                                         *)
(***************************************************************************)
EXTENDS StateText, Integers, FiniteSets

CONSTANTS
    Workers,        \* worker threads of the queue the action runs in
    Confs,          \* configurations: key, algorithm, certificate, embedcert
    OldStates,      \* tails an earlier version may have left in the old layout
    SignInterval,   \* signinterval
    MaxSeq          \* bound: no chain gets longer than this many entries

Conf == [key : Keys, alg : Algs, cert : BOOLEAN, embedcert : BOOLEAN]

ASSUME LifeAssumption ==
    /\ Confs \subseteq Conf /\ Confs # {}
    /\ OldStates \subseteq State
    /\ SignInterval \in Nat \ {0} /\ MaxSeq \in Nat
    /\ IsFiniteSet(Workers)

(* What the code allocates, by the variable that points to it                *)
SignerKinds == {"privkey", "cert", "cert_der"}
BufferKinds == {"stripped_sd", "cleaned_sd", "payload", "new_sd"}
Kinds == SignerKinds \cup BufferKinds \cup
         {"cert_pub", "b64", "pending_state", "FILE"}

VARIABLES
    conf,           \* configuration of the action
    power,          \* the machine is "on" or "off"
    wrkr_count,     \* wrkr_count of the instance
    wk,             \* each thread's worker instance, and where its call is
    heap,           \* how many objects of a kind were allocated and not freed
    path,           \* mmhashchainsigs.state, as a process reads it
    tmp,            \* .mmhashchainsigs.state.tmp
    stable          \* mmhashchainsigs.state, as last written to the disk

envVars == <<conf, power, wrkr_count>>
fileVars == <<path, tmp, stable>>
lifeVars == <<envVars, wk, heap, fileVars>>

(* ptr: which pointers are not NULL; pending: the pending state's content;   *)
(* signed: process_final made a SIG element; seq, msg_count: the chain.      *)
NoWork == [pc |-> "out", ptr |-> {}, initialized |-> FALSE, seq |-> 0,
           msg_count |-> 0, pending |-> NoState, signed |-> FALSE]

Nothing == [t \in Workers |-> [k \in Kinds |-> 0]]

-----------------------------------------------------------------------------
(* The three kinds of step *)

(* A call that leaves nothing allocated, whichever way it ends *)
Call(t, at, next) ==
    /\ wk[t].pc = at
    /\ wk' = [wk EXCEPT ![t].pc = next]
    /\ UNCHANGED heap

(* An allocation that succeeds *)
Acquire(t, at, kind, next) ==
    /\ wk[t].pc = at
    /\ wk' = [wk EXCEPT ![t].pc = next, ![t].ptr = @ \cup {kind}]
    /\ heap' = [heap EXCEPT ![t][kind] = @ + 1]

Try(t, at, kind, next, failed) ==
    Acquire(t, at, kind, next) \/ Call(t, at, failed)

(* Those of the pointers that are not NULL are freed and are NULL after.     *)
FreeAll(t, kinds) ==
    heap' = [heap EXCEPT ![t] =
                [k \in Kinds |-> IF k \in kinds \cap wk[t].ptr
                                 THEN @[k] - 1 ELSE @[k]]]

Release(t, at, kinds, next) ==
    /\ wk[t].pc = at
    /\ wk' = [wk EXCEPT ![t].pc = next, ![t].ptr = @ \ kinds]
    /\ FreeAll(t, kinds)

-----------------------------------------------------------------------------
(* createWrkrInstance *)

CreateSecondWorker(t) == \* a mutant of CreateWorker: a second one is let in
    /\ wk[t].pc = "out" /\ power = "on"
    /\ wrkr_count' = wrkr_count + 1
    /\ Call(t, "out", IF wrkr_count' > 2 THEN "rejected" ELSE "open state")
    /\ UNCHANGED <<conf, power>>

CreateWorker(t) ==
    /\ wk[t].pc = "out" /\ power = "on"
    /\ wrkr_count' = wrkr_count + 1
    /\ Call(t, "out", IF wrkr_count' > 1 THEN "rejected" ELSE "open state")
    /\ UNCHANGED <<conf, power>>

OpenState(t) ==
    \/ Acquire(t, "open state", "FILE", "magic") /\ path # NoFile
    \/ Call(t, "open state", "idle")

(* The one admitted worker reads: nobody replaces the file under it.         *)
HasMagic == path \notin {NoFile, << >>} /\ path[1].key = "magic"

CheckMagic(t) ==
    \/ Acquire(t, "magic", "pending_state", "fields") /\ HasMagic
    \/ Release(t, "magic", {"FILE"}, "idle")

ReadFields(t) ==
    LET st == LoadState(path)
        kinds == {"FILE"} \cup IF st = NoState THEN {"pending_state"} ELSE {}
    IN  /\ wk[t].pc = "fields"
        /\ wk' = [wk EXCEPT ![t].pc = "idle", ![t].ptr = @ \ kinds,
                            ![t].pending = st]
        /\ FreeAll(t, kinds)

-----------------------------------------------------------------------------
(* doAction: its buffers.  A client that sent no structured data skips the   *)
(* stripping; a header element that does not fit ends the call at once.      *)
BeginAction(t) ==
    /\ wk[t].seq <= MaxSeq
    /\ \E next \in {"strip", "clean"} : Call(t, "idle", next)

StripClientSD(t) == Try(t, "strip", "stripped_sd", "clean", "idle")

CleanSD(t) ==
    \/ Acquire(t, "clean", "cleaned_sd", "free stripped")
    \/ Release(t, "clean", {"stripped_sd"}, "idle")

FreeStripped(t) == Release(t, "free stripped", {"stripped_sd"}, "payload")

(* Where process_msg goes on once the worker is initialised *)
Enter(t) == IF "pending_state" \in wk[t].ptr THEN "final" ELSE "update"

MakePayload(t) ==
    Try(t, "payload", "payload",
        IF wk[t].initialized THEN Enter(t) ELSE "init", "finalize")

NewSD(t) == Try(t, "new sd", "new_sd", "finalize", "finalize")

FinalizeWithoutPayload(t) == \* a mutant of Finalize
    Release(t, "finalize", {"cleaned_sd", "new_sd"}, "idle")

Finalize(t) == Release(t, "finalize", {"cleaned_sd", "payload", "new_sd"}, "idle")

-----------------------------------------------------------------------------
(* mmhashchainsigs_init, with signer_init or signer_init_x509 *)

(* memset of the signer context, then check_privkey_perms *)
CheckPerms(t) ==
    /\ wk[t].pc = "init"
    /\ \E next \in {"load key", "finalize"} :
           wk' = [wk EXCEPT ![t].pc = next, ![t].ptr = @ \ SignerKinds]
    /\ UNCHANGED heap

LoadKey(t) == Try(t, "load key", "privkey", "key type", "finalize")

CheckKeyType(t) ==
    \/ Call(t, "key type", IF conf.cert THEN "load cert" ELSE "fingerprint")
    \/ Release(t, "key type", {"privkey"}, "finalize")

LoadCert(t) == Try(t, "load cert", "cert", "cert key", "init failed")

CertKey(t) == Try(t, "cert key", "cert_pub", "free cert key", "init failed")

(* Freed whether its type is supported or not *)
FreeCertKey(t) ==
    \E next \in {"key pair", "init failed"} :
        Release(t, "free cert key", {"cert_pub"}, next)

CheckKeypair(t) ==
    \E next \in {"fingerprint", "init failed"} : Call(t, "key pair", next)

Fingerprint(t) ==
    \E next \in {"chain", "init failed"} : Call(t, "fingerprint", next)

InitFailedKeepsCert(t) == \* a mutant of InitFailed
    Release(t, "init failed", {"privkey"}, "finalize")

(* The label `fail', and the same for a key without a certificate *)
InitFailed(t) == Release(t, "init failed", {"cert", "privkey"}, "finalize")

StartChain(t) ==
    \/ /\ wk[t].pc = "chain"
       /\ wk' = [wk EXCEPT ![t].pc = Enter(t), ![t].initialized = TRUE,
                           ![t].seq = 1, ![t].msg_count = 0]
       /\ UNCHANGED heap
    \/ Release(t, "chain", SignerKinds, "finalize")

-----------------------------------------------------------------------------
(* mmhashchainsigs_process_msg *)

(* process_final: under another key or algorithm the chain stays; otherwise  *)
(* it starts anew, whether the SIG element was made or not.                  *)
ProcessFinal(t) ==
    LET st == wk[t].pending
        same == st.fp = conf.key /\ st.alg = conf.alg
    IN  /\ wk[t].pc = "final"
        /\ \E made \in BOOLEAN :
               /\ made => same
               /\ wk' = [wk EXCEPT ![t].pc = "free state", ![t].signed = made,
                                   ![t].seq = IF same THEN 1 ELSE @,
                                   ![t].msg_count = IF same THEN 0 ELSE @]
        /\ UNCHANGED heap

FreeState(t) == Release(t, "free state", {"pending_state"}, "delete")

(* delete_state; the result of unlink is not looked at.                      *)
DeleteState(t) ==
    /\ wk[t].pc = "delete"
    /\ wk' = [wk EXCEPT ![t].pc = IF wk[t].signed THEN "new sd" ELSE "update",
                        ![t].pending = NoState, ![t].signed = FALSE]
    /\ path' \in {NoFile, path}
    /\ UNCHANGED <<heap, tmp, stable>>

(* hashchain_update, and what the entry becomes *)
Update(t) ==
    LET count == wk[t].msg_count + 1
        next == CASE wk[t].seq = 1 ->
                       IF conf.embedcert /\ conf.cert THEN "cert" ELSE "new sd"
                  [] wk[t].seq # 1 /\ count >= SignInterval -> "sign"
                  [] OTHER -> "new sd"
    IN  \/ /\ wk[t].pc = "update"
           /\ wk' = [wk EXCEPT ![t].pc = next, ![t].seq = @ + 1,
                               ![t].msg_count = count]
           /\ UNCHANGED heap
        \/ Call(t, "update", "finalize")

Sign(t) ==
    \/ /\ wk[t].pc = "sign"
       /\ wk' = [wk EXCEPT ![t].pc = "new sd", ![t].msg_count = 0]
       /\ UNCHANGED heap
    \/ Call(t, "sign", "finalize")

(* signer_get_cert_der encodes the certificate once per worker.              *)
CertDer(t) ==
    IF "cert_der" \in wk[t].ptr THEN Call(t, "cert", "b64")
    ELSE Try(t, "cert", "cert_der", "b64", "new sd")

FormatCert(t) == Try(t, "b64", "b64", "free b64", "new sd")

FreeB64(t) == Release(t, "free b64", {"b64"}, "new sd")

-----------------------------------------------------------------------------
(* freeWrkrInstance *)

HasTail(t) == wk[t].initialized /\ wk[t].msg_count > 0

BeginFree(t) ==
    \/ Call(t, "idle", IF HasTail(t) THEN "open tmp" ELSE "free signer")
    \/ Call(t, "rejected", "leave")

(* save_state: fopen(tmp, "w") empties a file left over, stdio holds the     *)
(* lines back until fclose, rename puts the file in its place.  A temporary  *)
(* file that stays behind is never read again, so it counts as empty.        *)
StateOf(t) ==
    [alg |-> conf.alg, chain_hash |-> [alg |-> conf.alg, n |-> wk[t].seq - 1],
     seq |-> wk[t].seq, sig_seq_from |-> wk[t].seq - wk[t].msg_count,
     fp |-> conf.key]

OpenTmp(t) ==
    \/ /\ Acquire(t, "open tmp", "FILE", "close tmp")
       /\ tmp' = << >> /\ UNCHANGED <<path, stable>>
    \/ Call(t, "open tmp", "free signer") /\ UNCHANGED fileVars

CloseTmp(t) ==
    /\ \/ /\ Release(t, "close tmp", {"FILE"}, "rename")
          /\ tmp' = StateLines(StateOf(t))
       \/ /\ Release(t, "close tmp", {"FILE"}, "unlink tmp")
          /\ tmp' = << >>
    /\ UNCHANGED <<path, stable>>

Rename(t) ==
    \/ /\ Call(t, "rename", "free signer")
       /\ path' = tmp /\ tmp' = NoFile /\ UNCHANGED stable
    \/ Call(t, "rename", "unlink tmp") /\ UNCHANGED fileVars

UnlinkTmp(t) ==
    /\ Call(t, "unlink tmp", "free signer")
    /\ tmp' \in {NoFile, << >>} /\ UNCHANGED <<path, stable>>

(* mmhashchainsigs_free: signer_free when initialised, then the pending      *)
(* state.                                                                    *)
FreeSigner(t) ==
    LET kinds == IF wk[t].initialized THEN SignerKinds ELSE {}
    IN  /\ wk[t].pc = "free signer"
        /\ wk' = [wk EXCEPT ![t].pc = "free pending", ![t].initialized = FALSE,
                            ![t].ptr = @ \ kinds]
        /\ FreeAll(t, kinds)

FreePending(t) == Release(t, "free pending", {"pending_state"}, "leave")

(* A mutant of Leave: the worker is not counted off. *)
LeaveCounted(t) ==
    /\ wk[t].pc = "leave"
    /\ wk' = [wk EXCEPT ![t] = NoWork]
    /\ UNCHANGED <<conf, power, wrkr_count, heap>>

(* rsyslog frees the instance data when the call returns.                    *)
Leave(t) ==
    /\ wk[t].pc = "leave"
    /\ wk' = [wk EXCEPT ![t] = NoWork]
    /\ wrkr_count' = IF wrkr_count > 0 THEN wrkr_count - 1 ELSE wrkr_count
    /\ UNCHANGED <<conf, power, heap>>

-----------------------------------------------------------------------------
(* The machine *)

Nobody == \A t \in Workers : wk[t].pc = "out"

ProcessEnds ==
    /\ wk' = [t \in Workers |-> NoWork] /\ heap' = Nothing /\ wrkr_count' = 0

(* SIGKILL: the files are as the last system call left them.                 *)
Kill ==
    /\ ~Nobody /\ ProcessEnds
    /\ tmp' = IF tmp = NoFile THEN NoFile ELSE << >>
    /\ UNCHANGED <<conf, power, path, stable>>

(* Nothing is flushed to the disk by the module itself: a power failure may  *)
(* undo the last rename or unlink, or keep a rename and lose what the file   *)
(* held.  tmp is never read before it is emptied.                            *)
PowerFails ==
    /\ power = "on" /\ power' = "off" /\ ProcessEnds
    /\ path' \in {stable, path} \cup
                 IF path \in {NoFile, stable} THEN {} ELSE TornImages(path)
    /\ stable' = path' /\ tmp' = NoFile
    /\ UNCHANGED conf

PowerReturns ==
    /\ power = "off" /\ power' = "on"
    /\ UNCHANGED <<conf, wrkr_count, wk, heap, fileVars>>

(* The kernel writes the file and its directory entry back in its own time.  *)
WriteBack ==
    /\ stable # path /\ stable' = path
    /\ UNCHANGED <<envVars, wk, heap, path, tmp>>

(* rsyslog is started with another configuration.                            *)
Reconfigure ==
    /\ Nobody /\ conf' \in Confs \ {conf}
    /\ UNCHANGED <<power, wrkr_count, wk, heap, fileVars>>

LifeInit ==
    /\ conf \in Confs /\ power = "on" /\ wrkr_count = 0
    /\ wk = [t \in Workers |-> NoWork] /\ heap = Nothing
    /\ path \in {NoFile} \cup {OldLines(s) : s \in OldStates}
    /\ tmp = NoFile /\ stable = path

(* Steps that touch memory only, the state files, the worker counter         *)
MemoryStep(t) ==
    /\ \/ OpenState(t) \/ CheckMagic(t) \/ ReadFields(t)
       \/ BeginAction(t) \/ StripClientSD(t) \/ CleanSD(t) \/ FreeStripped(t)
       \/ MakePayload(t) \/ NewSD(t) \/ Finalize(t)
       \/ CheckPerms(t) \/ LoadKey(t) \/ CheckKeyType(t) \/ LoadCert(t)
       \/ CertKey(t) \/ FreeCertKey(t) \/ CheckKeypair(t) \/ Fingerprint(t)
       \/ InitFailed(t) \/ StartChain(t)
       \/ ProcessFinal(t) \/ FreeState(t) \/ Update(t) \/ Sign(t)
       \/ CertDer(t) \/ FormatCert(t) \/ FreeB64(t)
       \/ BeginFree(t) \/ FreeSigner(t) \/ FreePending(t)
    /\ UNCHANGED <<envVars, fileVars>>

FileStep(t) ==
    /\ DeleteState(t) \/ OpenTmp(t) \/ CloseTmp(t) \/ Rename(t) \/ UnlinkTmp(t)
    /\ UNCHANGED envVars

CounterStep(t) ==
    /\ CreateWorker(t) \/ Leave(t)
    /\ UNCHANGED fileVars

LifeNext ==
    \/ \E t \in Workers : MemoryStep(t) \/ FileStep(t) \/ CounterStep(t)
    \/ Kill
    \/ PowerFails
    \/ PowerReturns
    \/ WriteBack
    \/ Reconfigure

LifeSpec == LifeInit /\ [][LifeNext]_lifeVars

-----------------------------------------------------------------------------
PCs == {"out", "rejected", "idle", "open state", "magic", "fields", "strip",
        "clean", "free stripped", "payload", "new sd", "finalize", "init",
        "load key", "key type", "load cert", "cert key", "free cert key",
        "key pair", "fingerprint", "init failed", "chain", "final",
        "free state", "delete", "update", "sign", "cert", "b64", "free b64",
        "open tmp", "close tmp", "rename", "unlink tmp", "free signer",
        "free pending", "leave"}

(* The type of the worker's and the machine's state.                         *)
LifeTypeOK ==
    /\ conf \in Confs /\ power \in {"on", "off"} /\ wrkr_count \in Nat
    /\ wk \in [Workers ->
                 [pc : PCs, ptr : SUBSET Kinds, initialized : BOOLEAN, seq : Nat,
                  msg_count : Nat, pending : State \cup {NoState},
                  signed : BOOLEAN]]
    /\ heap \in [Workers -> [Kinds -> Int]]

(* At every instant what is allocated is exactly what some pointer of the    *)
(* worker reaches: nothing leaks on any failing path of signer_init_x509,    *)
(* load_state or doAction, however often rsyslog retries it, and nothing is  *)
(* freed twice or used after it was freed.                                   *)
HeapIsOwned ==
    \A t \in Workers, k \in Kinds :
        heap[t][k] = IF k \in wk[t].ptr THEN 1 ELSE 0

(* Between two calls a worker holds a private key, and the certificate it    *)
(* was configured with, exactly while it is initialised; a pending state     *)
(* exactly until it is consumed; and no buffer or open file of an earlier    *)
(* call.  A worker that is gone holds nothing (README, key management).      *)
RestsWithItsOwn ==
    \A t \in Workers :
        LET held == wk[t].ptr
            signer == {"privkey"} \cup IF conf.cert THEN {"cert"} ELSE {}
        IN  /\ wk[t].pc = "idle" =>
                 held \ {"cert_der"} =
                     (IF wk[t].initialized THEN signer ELSE {}) \cup
                     (IF wk[t].pending = NoState THEN {} ELSE {"pending_state"})
            /\ wk[t].pc = "idle" /\ "cert_der" \in held =>
                 wk[t].initialized /\ conf.cert
            /\ wk[t].pc \in {"out", "rejected"} => held = {}

(* At most one worker at a time holds a chain: two would interleave two      *)
(* chains in one log (README, single worker thread required).  A rejected    *)
(* worker is freed by rsyslog without ever having held one.                  *)
AtMostOneChain == Cardinality({t \in Workers : wk[t].initialized}) <= 1

(* Whatever failed, the count of workers is that of the instances there are: *)
(* once they are gone the action admits a worker again.                      *)
CountsWorkers ==
    wrkr_count = Cardinality({t \in Workers : wk[t].pc # "out"})

(* Through kills and failing calls the file behaves as one cell that is      *)
(* written and emptied in one step; a power failure may undo the last change *)
(* or lose the tail, but load_state never accepts a torn file (README: "The  *)
(* state file is written atomically").                                       *)
TailOf ==
    LET ts == {t \in Workers : HasTail(t)}
    IN  IF ts = {} THEN NoState ELSE StateOf(CHOOSE t \in ts : TRUE)

TakenState ==
    LET ts == {t \in Workers : wk[t].pending # NoState}
    IN  IF ts = {} THEN NoState ELSE wk[CHOOSE t \in ts : TRUE].pending

SF == INSTANCE StateFile WITH
          stored <- LoadState(path), durable <- LoadState(stable),
          tail <- TailOf, taken <- TakenState

ImplementsStateFile == SF!Spec
=============================================================================
