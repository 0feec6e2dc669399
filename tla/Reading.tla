------------------------------- MODULE Reading --------------------------------
(***************************************************************************)
(* What a run of the verification engine that recorded no error knows of    *)
(* the lines it has read: how each line it counted continues the one before *)
(* it, and how the fields of the context sum them up.  None of this is      *)
(* kept by the code, which remembers one digest and five numbers.           *)
(***************************************************************************)
EXTENDS VerifierCtx

(* Line i is the first entry of a chain, or the entry after line i - 1.      *)
Chains(lines, i) ==
    LET l == lines[i]
    IN  /\ l.sd # NoSD
        /\ l.sd.type = "INIT" =>
             /\ l.sd.q = 1
             /\ l.sd.h = HashChainStep(ChainInitHash(l.sd.h.alg), 1, l.msg)
        /\ l.sd.type # "INIT" =>
             /\ i > 1 /\ l.sd.q = lines[i - 1].sd.q + 1
             /\ l.sd.h = HashChainStep(lines[i - 1].sd.h, l.sd.q, l.msg)

(* Line j is a SIG line, and no line after it up to line i - 1 is an INIT.   *)
SignedIn(lines, j, i) ==
    /\ lines[j].sd.type = "SIG"
    /\ \A n \in (j + 1) .. (i - 1) : lines[n].sd.type # "INIT"

(* Before line i, the signatures of its segment reach to entry s.            *)
Reach(lines, i, s) ==
    /\ \A j \in 1 .. (i - 1) : SignedIn(lines, j, i) => lines[j].sd.q <= s
    /\ s # 0 => \E j \in 1 .. (i - 1) : SignedIn(lines, j, i) /\ lines[j].sd.q = s

(* Line i is one the holder of the key may have written after those before.  *)
Sound(lines, i, key) ==
    LET sd == lines[i].sd
    IN  /\ Chains(lines, i)
        /\ sd.h.alg = lines[1].sd.h.alg
        /\ sd.type = "INIT" => sd.f = key
        /\ sd.type = "CONTINUE" => sd.f \in {NoKey, key}
        /\ sd.type = "SIG" =>
             /\ sd.qt = sd.q /\ sd.qf > 0 /\ Reach(lines, i, sd.qf - 1)
             /\ sd.s # NoSig /\ sd.s = HcsSign(key, sd.h)

(* Counted lines are sound, and in a strict run a SIG line is before every   *)
(* later segment, also before one that was still to open.                    *)
Counts(c, lines) ==
    /\ c.msg_count <= Len(lines)
    /\ \A i \in 1 .. c.msg_count : Sound(lines, i, c.key)
    /\ c.strict =>
         /\ \A i \in 2 .. c.msg_count :
                lines[i].sd.type = "INIT" => lines[i - 1].sd.type = "SIG"
         /\ c.msg_count > 0 /\ ~HasUnsigned(c) =>
                lines[c.msg_count].sd.type = "SIG"

(* While no segment is open nothing was read.                                *)
AtStart(c, lines) ==
    c.state = "EXPECT_INIT" =>
        /\ lines = << >> /\ c.msg_count = 0 /\ c.alg = NoAlg
        /\ c.next_seq = 1 /\ c.last_signed_seq = 0

(* While one is open the context is the sum of the last line and of the      *)
(* signatures before it.                                                     *)
InSegment(c, lines) ==
    LET n == Len(lines)
    IN  c.state = "PROCESSING" =>
            /\ n > 0 /\ c.msg_count = n /\ c.key # NoKey
            /\ c.chain_hash = lines[n].sd.h /\ c.next_seq = lines[n].sd.q + 1
            /\ c.alg = lines[1].sd.h.alg
            /\ Reach(lines, n + 1, c.last_signed_seq)
            /\ c.last_signed_seq < c.next_seq
            /\ c.last_signed_seq = c.next_seq - 1 => lines[n].sd.type = "SIG"

(* A context without an error after these lines.                             *)
Tracks(c, lines) ==
    c.errors = << >> => Counts(c, lines) /\ AtStart(c, lines) /\ InSegment(c, lines)
=============================================================================
