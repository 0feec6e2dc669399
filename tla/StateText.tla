------------------------------ MODULE StateText ------------------------------
(***************************************************************************)
(* The shutdown state file as text: the lines mmhashchainsigs_save_state    *)
(* prints, what is left of them when the file is cut short, and what        *)
(* mmhashchainsigs_load_state makes of any file.  The file carries no       *)
(* checksum and no length: that a torn one is refused rests on which lines  *)
(* it demands, and on the last of them having one width only.               *)
(***************************************************************************)
EXTENDS Naturals, Sequences

CONSTANTS
    Algs,           \* hash algorithms of the build
    DefaultAlg,     \* SHA-256, the algorithm of a file without hashalgo=
    Keys,           \* signing keys, each standing for its fingerprint
    Garbled,        \* a value no reader accepts: a short name, digest or print
    NoFile,         \* there is no file of that name
    NoState         \* NULL

LineKeys == {"magic", "hashalgo", "chain_hash", "seq", "sig_seq_from",
             "pubkey_fp", "cut"}

(* A digest is told by its width (the algorithm) and the entries behind it.  *)
Hash == [alg : Algs, n : Nat]

State == [alg : Algs, chain_hash : Hash, seq : Nat, sig_seq_from : Nat,
          fp : Keys]

AnyLine == [key : LineKeys,
            val : {"V1", Garbled} \cup Algs \cup Hash \cup Nat \cup Keys]

FileText == Seq(AnyLine)

ASSUME StateTextAssumption ==
    /\ DefaultAlg \in Algs
    /\ Garbled \notin Algs \cup Keys \cup Hash \cup Nat
    /\ NoState \notin State /\ NoFile \notin FileText

FileLine(k, x) == [key |-> k, val |-> x]

(* A mutant of StateLines: a number, and not the fingerprint, comes last.    *)
StateLinesSeqLast(s) ==
    << FileLine("magic", "V1"), FileLine("hashalgo", s.alg),
       FileLine("pubkey_fp", s.fp), FileLine("chain_hash", s.chain_hash),
       FileLine("sig_seq_from", s.sig_seq_from), FileLine("seq", s.seq) >>

(* What save_state prints *)
StateLines(s) ==
    << FileLine("magic", "V1"), FileLine("hashalgo", s.alg),
       FileLine("chain_hash", s.chain_hash), FileLine("seq", s.seq),
       FileLine("sig_seq_from", s.sig_seq_from), FileLine("pubkey_fp", s.fp) >>

(* The layout of files written before SHA-512 support *)
OldLines(s) == <<StateLines(s)[1]>> \o SubSeq(StateLines(s), 3, 6)

(* How a line cut short reads.  Cut within its name, it is no line at all; a *)
(* decimal number cut short is a smaller number; a digest cut at the width   *)
(* of another algorithm reads as one of that (here: of any other, shorter or *)
(* not); any other value is too short to be accepted.                        *)
ShortValues(l) ==
    CASE l.val = Garbled -> {}
      [] l.val # Garbled /\ l.key \in {"seq", "sig_seq_from"} -> 1 .. l.val - 1
      [] l.val # Garbled /\ l.key = "chain_hash" ->
           {[alg |-> a, n |-> l.val.n] : a \in Algs \ {l.val.alg}} \cup {Garbled}
      [] OTHER -> {Garbled}

Cuts(l) ==
    {FileLine("cut", Garbled)} \cup
    (IF l.key = "magic" THEN {} ELSE {FileLine(l.key, x) : x \in ShortValues(l)})

(* What may be on the disk of a file that was not written to its end         *)
TornImages(f) ==
    {SubSeq(f, 1, n) : n \in 0 .. Len(f)} \cup
    UNION {{Append(SubSeq(f, 1, n - 1), c) : c \in Cuts(f[n])} :
               n \in 1 .. Len(f)}

-----------------------------------------------------------------------------
(* mmhashchainsigs_load_state *)

Numbered(f, k) == {i \in 2 .. Len(f) : f[i].key = k}

(* Lines whose value the reader accepts: those it counts in `got'            *)
Accepted(f, k) == {i \in Numbered(f, k) : f[i].val # Garbled}

(* The last such line wins; without one calloc leaves the field zero.        *)
ValueOf(f, k) ==
    IF Accepted(f, k) = {} THEN Garbled
    ELSE f[CHOOSE i \in Accepted(f, k) : \A j \in Accepted(f, k) : j <= i].val

Required == {"chain_hash", "seq", "sig_seq_from", "pubkey_fp"}

(* A mutant of Loads: the mask of the fields is not complete.                *)
LoadsWithoutFp(f) ==
    /\ f # NoFile /\ f # << >> /\ f[1].key = "magic"
    /\ Numbered(f, "hashalgo") = Accepted(f, "hashalgo")
    /\ \A k \in Required \ {"pubkey_fp"} : Accepted(f, k) # {}

(* The file has the magic line, no unknown hash algorithm, got = 15.         *)
Loads(f) ==
    /\ f # NoFile /\ f # << >> /\ f[1].key = "magic"
    /\ Numbered(f, "hashalgo") = Accepted(f, "hashalgo")
    /\ \A k \in Required : Accepted(f, k) # {}

LoadState(f) ==
    IF ~Loads(f) THEN NoState
    ELSE [alg |-> IF Accepted(f, "hashalgo") = {} THEN DefaultAlg
                  ELSE ValueOf(f, "hashalgo"),
          chain_hash |-> ValueOf(f, "chain_hash"), seq |-> ValueOf(f, "seq"),
          sig_seq_from |-> ValueOf(f, "sig_seq_from"),
          fp |-> ValueOf(f, "pubkey_fp")]
=============================================================================
