-------------------------------- MODULE Audit --------------------------------
(***************************************************************************)
(* mmhashchainsigs-verify (main of src/verify/mmhashchainsigs_verify.c) run  *)
(* over the stored copy of the log, while the signer goes on appending to   *)
(* it.  Between two runs the copy may suffer what transport and storage do  *)
(* to lines: one is lost, delivered twice, overtaken by the next, or is     *)
(* changed, its digest included: the chain has no key, so whoever changes a *)
(* line can compute the digest that fits it.  A signature is all that is     *)
(* made by the signer alone.  `log' stays what the signer emitted.          *)
(***************************************************************************)
EXTENDS Pipeline, Integers, SequencesExt

CONSTANTS
    AuditOpts,      \* the ways it may be started
    Incidents,      \* what may happen to the copy
    MaxIncidents,   \* bound: how many of them
    AuditFaults     \* which calls of the verifier may fail

(* Calls that can fail: an OpenSSL digest, X509_STORE_CTX_new, getline       *)
AuditFaultPoints == {"digest", "store", "read"}

ASSUME AuditAssumption ==
    /\ AuditOpts \subseteq VOpts
    /\ Incidents \subseteq {"lose", "repeat", "swap", "alter", "element", "rehash"}
    /\ MaxIncidents \in Nat
    /\ AuditFaults \subseteq AuditFaultPoints

VARIABLES
    file,       \* the stored copy
    incidents,  \* how many incidents it suffered
    reading,    \* the verifier is in its getline loop
    seen,       \* the lines it has read
    ctx,        \* its verifier_ctx_t
    code        \* its exit code, NoCode before the first run ends

copyVars == <<file, incidents>>
auditVars == <<reading, seen, ctx, code>>
allVars == <<vars, copyVars, auditVars>>

NoCode == -1

-----------------------------------------------------------------------------
(* The copy *)

(* The next line arrives in the file; other steps of the signer do not touch *)
(* it.                                                                       *)
Arrive == Store /\ file' = Append(file, inhand) /\ UNCHANGED <<incidents, auditVars>>

SignerStep ==
    /\ \/ \E m \in Msgs : Sign(m)
       \/ SignTail \/ Start \/ Stop \/ Kill \/ Rewrite
    /\ UNCHANGED <<copyVars, auditVars>>

Suffer(kind, copy) ==
    /\ kind \in Incidents /\ ~reading /\ incidents < MaxIncidents
    /\ file' = copy /\ incidents' = incidents + 1
    /\ UNCHANGED <<vars, auditVars>>

Lose == \E i \in DOMAIN file : Suffer("lose", RemoveAt(file, i))

(* A relay that lost the acknowledgement sends a line again, at any later    *)
(* place.                                                                    *)
Repeat ==
    \E i \in DOMAIN file : \E j \in (i + 1) .. (Len(file) + 1) :
        Suffer("repeat", InsertAt(file, j, file[i]))

Swap ==
    \E i \in 1 .. (Len(file) - 1) :
        Suffer("swap", [file EXCEPT ![i] = file[i + 1], ![i + 1] = file[i]])

Alter ==
    \E i \in DOMAIN file : \E m \in Payload \ {file[i].msg} :
        Suffer("alter", [file EXCEPT ![i].msg = m])

Elements == {j \in DOMAIN file : file[j].sd # NoSD}

(* A parameter of the element that the digest does not cover is changed to   *)
(* one that still parses, with a signature that is there to be copied and    *)
(* another range beside a signature, or the certificate is gone.             *)
Forged(line) ==
    LET sd == line.sd
        Near(n) == IF sd.s = NoSig THEN {} ELSE {n - 1, n + 1} \cap Nat
    IN  {[line EXCEPT !.sd.type = ty] : ty \in SDTypes \ {sd.type}} \cup
        {[line EXCEPT !.sd.qf = n] : n \in Near(sd.qf)} \cup
        {[line EXCEPT !.sd.qt = n] : n \in Near(sd.qt)} \cup
        {[line EXCEPT !.sd.s = sig] :
            sig \in {NoSig} \cup {file[j].sd.s : j \in Elements}} \cup
        {[line EXCEPT !.sd.f = NoKey], [line EXCEPT !.cert = NoKey]}

Forge ==
    \E i \in Elements : \E k \in Forged(file[i]) \ {file[i]} :
        Suffer("element", [file EXCEPT ![i] = k])

(* Line i is written anew, with a message, the number of the next entry and  *)
(* the digest hcs_hash_chain computes for them: of an INIT line from the     *)
(* well-known initial value, of another from the line before.                *)
Before(i) ==
    IF file[i].sd.type = "INIT" THEN {ChainInitHash(a) : a \in Algs}
    ELSE {file[j].sd.h : j \in {i - 1} \cap Elements}

Rehashed(line, h, m) ==
    [line EXCEPT !.msg = m, !.sd.q = Len(h.links) + 1,
                 !.sd.h = HashChainStep(h, Len(h.links) + 1, m)]

Rehash ==
    \E i \in Elements : \E h \in Before(i), m \in Payload :
        LET k == Rehashed(file[i], h, m)
        IN  k # file[i] /\ Suffer("rehash", [file EXCEPT ![i] = k])

-----------------------------------------------------------------------------
(* The program *)

(* Options are good, verifier_init and fopen succeed (lines 57-122); every   *)
(* other start ends with exit code 2 before it looks at the log.             *)
Open ==
    /\ ~reading
    /\ reading' = TRUE /\ seen' = << >> /\ code' = NoCode
    /\ \E opts \in AuditOpts : ctx' = VerifierInit(opts)
    /\ UNCHANGED <<vars, copyVars>>

(* getline delivered a line. *)
Next1 == file[Len(seen) + 1]

LineIsThere == reading /\ ~Stopped(ctx) /\ Len(seen) < Len(file)

Read ==
    /\ LineIsThere
    /\ seen' = Append(seen, Next1) /\ ctx' = VerifierProcessLine(ctx, Next1)
    /\ UNCHANGED <<vars, copyVars, reading, code>>

(* hcs_hash_chain fails inside verify_sd_msg_hash, or hcs_chain_init_hash    *)
(* before it: the engine stops, and records nothing.                         *)
DigestFails(c, line) ==
    LET closed == CloseSegment(InstallKey(c, line.cert))
        at == CASE line.sd.type = "INIT" -> OpenSegment(closed, line.sd.h.alg)
                [] line.sd.type = "CONTINUE" ->
                     [c EXCEPT !.segment_count = @ + 1]
                [] OTHER -> c
    IN  {[AddError(at, line.sd.q # at.next_seq, "sequence")
          EXCEPT !.state = "ERROR"]} \cup
        IF line.sd.type = "INIT" THEN {[closed EXCEPT !.state = "ERROR"]} ELSE {}

Hashes(c, line) == VerifierProcessLine(c, line).msg_count # c.msg_count

(* install_pubkey_from_cert is reached; it gets no store context, and the    *)
(* engine stops.                                                             *)
StoreFails(c) == {[c EXCEPT !.state = "ERROR"]}

Installs(c, line) ==
    /\ line.sd # NoSD /\ line.sd.type = "INIT" /\ line.sd.f # NoKey
    /\ c.ca /\ c.key = NoKey /\ line.cert # NoKey

ReadFails ==
    /\ LineIsThere
    /\ \/ /\ "digest" \in AuditFaults /\ Hashes(ctx, Next1)
          /\ ctx' \in DigestFails(ctx, Next1)
       \/ /\ "store" \in AuditFaults /\ Installs(ctx, Next1)
          /\ ctx' \in StoreFails(ctx)
    /\ seen' = Append(seen, Next1)
    /\ UNCHANGED <<vars, copyVars, reading, code>>

(* The exit code is read off the texts of the recorded errors. *)
KeyErrors == {"INIT fingerprint mismatch", "CONTINUE fingerprint mismatch"}
CertErrors == {"certificate required", "certificate chain validation"}

Recorded(c, kinds) == \E i \in DOMAIN c.errors : c.errors[i] \in kinds

ErrorCount(c) == Len(c.errors) \* a mutant of ExitCode

ExitCode(c) ==
    IF VerifierPassed(c) THEN 0
    ELSE IF Recorded(c, KeyErrors) THEN 3
    ELSE IF Recorded(c, CertErrors) THEN 4 ELSE 1

(* verifier_process_line returned -1, or getline did: at the end of the      *)
(* file, or because it could not read on, which nobody asks.                 *)
Finish ==
    /\ reading
    /\ Stopped(ctx) \/ Len(seen) = Len(file) \/ "read" \in AuditFaults
    /\ reading' = FALSE
    /\ ctx' = VerifierFinalize(ctx) /\ code' = ExitCode(ctx')
    /\ UNCHANGED <<vars, copyVars, seen>>

AuditInit ==
    /\ Init
    /\ file = << >> /\ incidents = 0
    /\ reading = FALSE /\ seen = << >> /\ ctx = VerifierInit(Opts)
    /\ code = NoCode

AuditNext ==
    \/ Arrive \/ SignerStep
    \/ Lose \/ Repeat \/ Swap \/ Alter \/ Forge \/ Rehash
    \/ Open \/ Read \/ ReadFails \/ Finish

AuditSpec == AuditInit /\ [][AuditNext]_allVars

-----------------------------------------------------------------------------
(* Types of the copy and of the verifier's run over it.                      *)
AuditTypeOK ==
    /\ TypeOK
    /\ file \in Seq(Line) /\ incidents \in 0 .. MaxIncidents
    /\ reading \in BOOLEAN /\ seen \in Seq(Line) /\ VCtxOK(ctx)
    /\ code \in {NoCode, 0, 1, 3, 4}

(* Two lines that differ in nothing the digest covers: it leaves out the     *)
(* element's type.                                                           *)
SameLine(l, k) == l.sd.q = k.sd.q /\ l.sd.h = k.sd.h /\ l.msg = k.msg

(* A copy nobody damaged gets exit code 0 whenever the verifier finds a line *)
(* in it, also while more lines are being appended; a strict run may meet the *)
(* unsigned tail of a segment that is still growing.                         *)
UndamagedPasses ==
    incidents = 0 /\ seen # << >> /\ ~ctx.strict => code \in {NoCode, 0}

(* The lines "PASS: N messages verified" speaks of                           *)
Counted == SubSeq(seen, 1, ctx.msg_count)

(* Exit code 0 means that every signature counted vouches for the whole of   *)
(* its segment so far: as many lines as its entry's number are, from an INIT *)
(* line on, lines the signer emitted in a row.  Lines after the last         *)
(* signature of a segment only fit each other, as anyone can make them fit;  *)
(* a strict run accepts none (StrictSegmentsSigned).                         *)
AcceptedIsAuthentic ==
    code = 0 /\ ~reading =>
        \A k \in DOMAIN Counted : Counted[k].sd.type = "SIG" =>
            LET q == Counted[k].sd.q
            IN  /\ q <= k /\ Counted[k - q + 1].sd.type = "INIT"
                /\ \E j \in q .. Len(log) : \A n \in 0 .. q - 1 :
                       SameLine(log[j - n], Counted[k - n])

(* Exit code 0 of a strict run: every segment counted as verified ends with  *)
(* a signature, which then covers all of it (verifier.c 259-268, 462-477).   *)
StrictSegmentsSigned ==
    code = 0 /\ ~reading /\ ctx.strict =>
        \A i \in DOMAIN Counted :
            i = Len(Counted) \/ Counted[i + 1].sd.type = "INIT" =>
                Counted[i].sd.type = "SIG"

(* Exit code 0 means that the signed ranges tile every segment: each SIG line *)
(* covers the entries from after the one before it up to itself, none twice  *)
(* and none left out, whatever range the stored lines claimed (verifier.c    *)
(* 338-366, where a claimed range moves last_signed_seq).                    *)
SignedBefore(i) ==
    {Counted[j].sd.q : j \in {k \in 1 .. (i - 1) :
        /\ Counted[k].sd.type = "SIG"
        /\ \A n \in k .. i : Counted[n].sd.type # "INIT"}}

SignedRangesTile ==
    code = 0 /\ ~reading =>
        \A i \in DOMAIN Counted : Counted[i].sd.type = "SIG" =>
            /\ Counted[i].sd.qt = Counted[i].sd.q
            /\ Counted[i].sd.qf = 1 + Max(SignedBefore(i) \cup {0})

(* "any modification, deletion, insertion, or reorder breaks the chain ...   *)
(* sequence numbers so gaps and replays are explicit" (README): with exit    *)
(* code 0, what was read is the beginning of what was emitted.               *)
PassMeansNothingMissing ==
    code = 0 /\ ~reading =>
        /\ Len(seen) <= Len(log)
        /\ \A i \in DOMAIN seen : SameLine(seen[i], log[i])

(* A run that stops before the end of the file does not exit with 0          *)
(* ("-1 on unrecoverable error", verifier.h).                                *)
PassReadsWholeFile ==
    [][reading /\ ~reading' /\ code' = 0 => Len(seen) = Len(file)
                                            /\ ~Stopped(ctx)]_allVars
=============================================================================
