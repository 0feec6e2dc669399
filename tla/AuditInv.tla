------------------------------ MODULE AuditInv --------------------------------
(***************************************************************************)
(* The inductive invariant behind the properties of Audit.  Exit code 0     *)
(* says something of the lines read only through what the context retained  *)
(* of them, and of the lines emitted only because nobody but the signer     *)
(* makes a signature: whatever happened to the copy, a signature on one of   *)
(* its lines is over the digest of an emitted line.                         *)
(***************************************************************************)
EXTENDS Audit, PipelineInv, Reading

(* A signature on a line is over the digest of an emitted line, though not   *)
(* that of this line if the line was changed.                                *)
SignsEmitted(line) ==
    line.sd # NoSD /\ line.sd.s # NoSig =>
        \E j \in DOMAIN log : log[j].sd # NoSD /\ log[j].sd.h = line.sd.s.digest

Stems(lines) == \A i \in DOMAIN lines : SignsEmitted(lines[i])

(* The signer signs the digest of the entry that carries the signature.      *)
SignsItself(line) ==
    line.sd # NoSD /\ line.sd.s # NoSig => line.sd.s.digest = line.sd.h

(* Without an incident the copy is the log, and what was read its beginning. *)
CopyIntact ==
    incidents = 0 =>
        /\ file = log /\ Len(seen) <= Len(log)
        /\ \A i \in DOMAIN seen : seen[i] = log[i]

(* A run that is over was finalised, and its exit code is read off it.       *)
CodeFits ==
    /\ reading => code = NoCode
    /\ code # NoCode => ctx.state = "DONE" /\ code = ExitCode(ctx)
    /\ code = 0 /\ ctx.strict => ~HasUnsigned(ctx)

(* The verifier follows the log, the program what it has read of the copy.   *)
Follows ==
    /\ Tracks(v, log) /\ (v.errors = << >> => ~Stopped(v))
    /\ Tracks(ctx, seen)

(* The inductive invariant: it holds whatever the signer, the copy and the   *)
(* verifier's own calls do (mmhashchainsigs_verify.c 57-203).                *)
AuditIInv ==
    /\ inhand # NoLine => SignsItself(inhand)
    /\ Stems(file) /\ Stems(seen) /\ CopyIntact /\ CodeFits /\ Follows

-----------------------------------------------------------------------------
(* Every INIT line brings the certificate.                                   *)
Embeds == "cert" \notin Faults /\ \A c \in Confs : c.embedcert

(* How the program may be started on an honest log: with the signer's key,   *)
(* or with a CA bundle its certificate chains to, if that is always embedded *)

AuditTolerable ==
    /\ Tolerable
    /\ \A o \in AuditOpts :
          \/ o.key = Opts.key
          \/ o.key = NoKey /\ Opts.key \in CertifiedKeys /\ Embeds

(* An INIT line brings the certificate of the signer's key.                  *)
CertFits(line) == line.sd # NoSD /\ line.sd.type = "INIT" => line.cert = Opts.key

CertsFit ==
    Embeds => /\ \A i \in DOMAIN log : CertFits(log[i])
              /\ inhand # NoLine => CertFits(inhand)

(* The key the run trusts is the signer's, or will be with the first INIT.   *)
Trusts ==
    \/ ctx.key = Opts.key
    \/ Embeds /\ ctx.ca /\ ctx.key = NoKey /\ Opts.key \in CertifiedKeys

(* A run over a copy nobody damaged has found nothing, unless it is strict   *)
(* and met a tail that was still growing.                                    *)
ReadsHonestLog ==
    incidents = 0 /\ (reading \/ seen # << >>) /\ ~ctx.strict =>
        Trusts /\ ctx.errors = << >>

(* The inductive invariant under AuditTolerable                              *)
HonestIInv == CertsFit /\ ReadsHonestLog
=============================================================================
