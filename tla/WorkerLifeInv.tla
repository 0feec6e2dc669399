---------------------------- MODULE WorkerLifeInv ----------------------------
(* The inductive invariant of WorkerLife: what a worker holds at each place  *)
(* of its calls, how many workers are at work, and how the state file        *)
(* relates to the one that is.                                               *)
EXTENDS WorkerLife

AfterKeyLoad == {"key type", "load cert", "cert key", "free cert key",
                 "key pair", "fingerprint", "init failed", "chain"}

Initialising == {"init", "load key"} \cup AfterKeyLoad

InProcessMsg == {"final", "free state", "delete", "update", "sign", "cert",
                 "b64", "free b64"}

AfterPayload == Initialising \cup InProcessMsg \cup {"new sd", "finalize"}

Saving == {"open tmp", "close tmp", "rename", "unlink tmp"}

(* Where the worker may be while `initialized' is set *)
Running == InProcessMsg \cup Saving \cup
           {"idle", "strip", "clean", "free stripped", "payload", "new sd",
            "finalize", "free signer"}

(* The signer context: its key is there from hcs_load_private_key on, its    *)
(* certificate, if one is configured, before the key pair is checked.        *)
HoldsSigner(w, cert) ==
    /\ w.initialized => w.pc \in Running
    /\ "privkey" \in w.ptr <=> w.initialized \/ w.pc \in AfterKeyLoad
    /\ "cert" \in w.ptr => cert /\ (w.initialized \/ w.pc \in AfterKeyLoad)
    /\ w.initialized /\ cert => "cert" \in w.ptr
    /\ w.pc \in {"load cert", "cert key", "free cert key", "key pair", "cert"}
         => cert
    /\ w.pc = "load cert" => "cert" \notin w.ptr
    /\ w.pc = "key type" => "cert" \notin w.ptr
    /\ w.pc \in {"cert key", "free cert key", "key pair"} => "cert" \in w.ptr
    /\ w.pc \in {"fingerprint", "chain"} /\ cert => "cert" \in w.ptr
    /\ "cert_der" \in w.ptr => w.initialized /\ cert
    /\ w.pc \in Initialising => ~w.initialized
    /\ w.pc \in InProcessMsg => w.initialized

(* The pending state lives from its calloc to its free, and its content is   *)
(* known from the end of load_state until the file is deleted.               *)
HoldsPending(w) ==
    /\ "pending_state" \in w.ptr <=>
         \/ w.pc = "fields"
         \/ w.pending # NoState /\ w.pc \notin {"delete", "leave"}
    /\ w.pending # NoState =>
         /\ w.pc \notin {"out", "rejected", "open state", "magic", "fields",
                         "update"}
         /\ w.msg_count = 0
    /\ w.pc \in {"final", "free state", "delete"} => w.pending # NoState

(* Buffers, files and temporary objects, only between their two calls        *)
HoldsBuffers(w) ==
    /\ "FILE" \in w.ptr => w.pc \in {"magic", "fields", "close tmp"}
    /\ "stripped_sd" \in w.ptr => w.pc \in {"clean", "free stripped"}
    /\ "cleaned_sd" \in w.ptr =>
         w.pc \in AfterPayload \cup {"free stripped", "payload"}
    /\ "payload" \in w.ptr => w.pc \in AfterPayload
    /\ "new_sd" \in w.ptr => w.pc = "finalize"
    /\ "cert_pub" \in w.ptr => w.pc = "free cert key"
    /\ "b64" \in w.ptr => w.pc = "free b64"

(* The counters of the chain, and what save_state is only reached with       *)
CountsEntries(w) ==
    /\ w.msg_count <= w.seq
    /\ w.pc \in {"out", "rejected", "open state", "magic", "fields"} =>
         w.msg_count = 0
    /\ w.pc \in Saving => w.initialized /\ w.msg_count > 0

Fits(w, cert) ==
    /\ HoldsSigner(w, cert) /\ HoldsPending(w) /\ HoldsBuffers(w)
    /\ CountsEntries(w)

AllFit == \A t \in Workers : Fits(wk[t], conf.cert)

(* At work: admitted, and not yet known to hold nothing                      *)
AtWork(w) == w.pc \notin {"out", "rejected", "leave"} \/ w.pending # NoState

OneAtWork == \A t, u \in Workers : AtWork(wk[t]) /\ AtWork(wk[u]) => t = u

(* What the files hold: only a whole file can be unknown to the disk, the    *)
(* one to be renamed is the whole tail, and the file is the pending state's  *)
(* as long as there is one.                                                  *)
FilesFit ==
    /\ {LoadState(path), LoadState(stable)} \subseteq State \cup {NoState}
    /\ path \notin {NoFile, stable} =>
         LoadState(path) # NoState /\ path = StateLines(LoadState(path))
    /\ \A t \in Workers :
         /\ wk[t].pc = "rename" => tmp = StateLines(StateOf(t))
         /\ wk[t].pending # NoState => LoadState(path) = wk[t].pending

(* The inductive invariant from which the properties of WorkerLife follow:   *)
(* every call of createWrkrInstance, doAction and freeWrkrInstance finds the *)
(* worker holding what the calls before it left (mmhashchainsigs.c 460-697). *)
LifeInv ==
    /\ LifeTypeOK /\ HeapIsOwned /\ CountsWorkers
    /\ AllFit /\ OneAtWork /\ FilesFit
=============================================================================
