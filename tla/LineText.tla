------------------------------ MODULE LineText -------------------------------
(***************************************************************************)
(* The text of a signed line: what doAction hashes and what it hands on     *)
(* (mmhashchainsigs.c, hcs_format.c), and what the verifier cuts out of the *)
(* stored line before it hashes the rest (verifier.c).  Both sides look for *)
(* SD-ID prefixes in raw text, so the two only agree if the prefixes occur  *)
(* where each side expects them, also in a message that a relay signs again. *)
(*                                                                         *)
(* A text is a sequence of tokens.  A prefix "[<sd-id> " is two of them, so *)
(* that a text can hold its pieces apart and join them when what stands      *)
(* between is taken out; where the characters are cut does not matter.  The  *)
(* rest are the characters the scanners look at, and "x", "sd", "b64" for    *)
(* any text without one of those.                                            *)
(***************************************************************************)
EXTENDS Naturals, Sequences, SequencesExt

CONSTANTS
    Hosts,          \* header values (host, app, procid, msgid) as rsyslog has them
    ClientSDs,      \* structured data a client sends, as lists of elements
    Texts,          \* MSG parts
    HdrMaxLen,      \* HCS_SD_HDR_MAX_LEN
    MsgBufLen,      \* SD_MSG_BUF_LEN
    MaxHops         \* bound: how many signers a message passes

Open == "[mmhashchainsigs"
Self == <<Open, "@32473 ">>
Hdr == <<Open, "-hdr@32473 ">>
Cert == <<Open, "-cert@32473 ">>
App == "[app@1 "
Quote == "quote"
Backslash == "backslash"

Token == {Open, "@32473 ", "-hdr@32473 ", "-cert@32473 ", App, Quote, Backslash,
          "]", "NL", "CR", "x", "sd", "cert=", "b64"}

(* A header value has no space in it, so never a whole prefix.               *)
ValueToken == {Open, Quote, Backslash, "]", "x"}

ASSUME TextAssumption ==
    /\ HdrMaxLen \in Nat /\ MsgBufLen \in Nat /\ MaxHops \in Nat
    /\ \A h \in Hosts : h \in Seq(ValueToken)
    /\ \A e \in ClientSDs : e \in Seq(Seq(Token))
    /\ \A m \in Texts : m \in Seq(Token)

VARIABLES
    host,           \* header value of the message
    elements,       \* structured data the client sent, element by element
    sd,             \* structured data of the message as the next signer sees it
    msg,            \* MSG
    hops,           \* signers the message passed
    payload,        \* what the last of them hashed
    embedded,       \* the last of them added its certificate
    line            \* the line as stored after it

textVars == <<host, elements, sd, msg, hops, payload, embedded, line>>

-----------------------------------------------------------------------------
(* Both sides: scanning an element *)

(* The prefix id stands at position i (memcmp)                               *)
At(s, id, i) == i < Len(s) /\ s[i] = id[1] /\ s[i + 1] = id[2]

Occurs(s, id) == \E i \in DOMAIN s : At(s, id, i)

(* Where the closing quote of a value is whose text begins at i, Len(s) + 1  *)
(* if there is none; a backslash hides the character after it.               *)
ValueEnd(s) ==
    LET end[i \in 1 .. Len(s) + 2] ==
            CASE i > Len(s) -> Len(s) + 1
              [] i <= Len(s) /\ s[i] = Quote -> i
              [] i <= Len(s) /\ s[i] = Backslash -> end[i + 2]
              [] OTHER -> end[i + 1]
    IN  end

(* The position after the element of which the text from i on is left: past  *)
(* the first bracket outside a value.  One without its bracket extends to    *)
(* the end, here Len(s) + 2.                                                 *)
SdScanElement(s) ==
    LET after[i \in 1 .. Len(s) + 2] ==
            CASE i > Len(s) -> Len(s) + 2
              [] i <= Len(s) /\ s[i] = "]" -> i + 1
              [] i <= Len(s) /\ s[i] = Quote -> after[ValueEnd(s)[i + 1] + 1]
              [] OTHER -> after[i + 1]
    IN  after

(* What hcs_strip_all_sd leaves of the text from i on: whatever is not       *)
(* inside an element of this ID.  One pass: what it joins is not looked at   *)
(* again.                                                                    *)
Remaining(s, id) ==
    LET rest[i \in 1 .. Len(s) + 2] ==
            CASE i > Len(s) -> << >>
              [] i <= Len(s) /\ At(s, id, i) -> rest[SdScanElement(s)[i + 2]]
              [] i <= Len(s) /\ ~At(s, id, i) -> <<s[i]>> \o rest[i + 1]
    IN  rest

HcsStripAllSd(s, id) == Remaining(s, id)[1]

-----------------------------------------------------------------------------
(* The signer *)

SdEscapeQuotes(value) == \* a mutant of SdEscapeParam: \ itself is not escaped
    FlattenSeq([i \in DOMAIN value |->
        IF value[i] \in {Quote, "]"} THEN <<Backslash, value[i]>>
                                     ELSE <<value[i]>>])

SdEscapeParam(value) ==
    FlattenSeq([i \in DOMAIN value |->
        IF value[i] \in {Backslash, Quote, "]"} THEN <<Backslash, value[i]>>
                                                ELSE <<value[i]>>])

HcsFormatSdHdr(value) == Hdr \o <<Quote>> \o SdEscapeParam(value) \o <<Quote, "]">>

HcsFormatSdCert == Cert \o <<"cert=", Quote, "b64", Quote, "]">>

StripSelfOnly(s) == HcsStripAllSd(s, Self) \* a mutant of StripClientSD

(* What doAction keeps of the message's own structured data *)
StripClientSD(s) == HcsStripAllSd(HcsStripAllSd(s, Self), Hdr)

(* A mutant of Payload: the header element is left out of the hash.          *)
PayloadOfClient(value, s, m) == StripClientSD(s) \o m

(* cleaned_SD || MSG *)
Payload(value, s, m) == HcsFormatSdHdr(value) \o StripClientSD(s) \o m

NewSDHdrFirst(value, s, certified) == \* a mutant of NewSD: another order
    HcsFormatSdHdr(value) \o Self \o <<"sd", "]">>
        \o (IF certified THEN HcsFormatSdCert ELSE << >>) \o StripClientSD(s)

NewSD(value, s, certified) ==
    Self \o <<"sd", "]">> \o (IF certified THEN HcsFormatSdCert ELSE << >>)
        \o HcsFormatSdHdr(value) \o StripClientSD(s)

HeaderFits(value) == Len(HcsFormatSdHdr(value)) < HdrMaxLen

-----------------------------------------------------------------------------
(* The verifier *)

(* getline and the trimming after it *)
ReadLine(stored) ==
    LET ends == {i \in DOMAIN stored : stored[i] = "NL"}
        cut == IF ends = {} THEN Len(stored)
               ELSE (CHOOSE i \in ends : \A j \in ends : i <= j) - 1
        last == {i \in 1 .. cut : stored[i] # "CR"}
    IN  IF last = {} THEN << >>
        ELSE SubSeq(stored, 1, CHOOSE i \in last : \A j \in last : j <= i)

(* Where a prefix stands first, 0 if it does not                             *)
First(s, id) ==
    LET at == {i \in DOMAIN s : At(s, id, i)}
    IN  IF at = {} THEN 0 ELSE CHOOSE i \in at : \A j \in at : i <= j

Malformed == [rc |-> -1, msg |-> << >>]

(* hcs_strip_sd_from_line: the first element with our ID, wherever it is.    *)
(* No element, none that ends, or a rest that does not fit: -1.              *)
HcsStripSdFromLine(s) ==
    LET i == First(s, Self)
        p == SdScanElement(s)[i + 2]
        rest == SubSeq(s, 1, i - 1) \o SubSeq(s, p, Len(s))
    IN  IF i = 0 \/ p > Len(s) + 1 \/ Len(rest) >= MsgBufLen THEN Malformed
        ELSE [rc |-> 0, msg |-> rest]

(* hcs_extract_and_strip_cert_sd: the first certificate element, wherever it *)
(* is, must be complete and hold base64.                                     *)
HcsExtractAndStripCertSd(s) ==
    LET i == First(s, Cert)
        end == ValueEnd(s)[i + 4]
        complete == /\ i + 3 < Len(s) /\ s[i + 2] = "cert=" /\ s[i + 3] = Quote
                    /\ end < Len(s) /\ s[end + 1] = "]"
                    /\ \A j \in i + 4 .. end - 1 : s[j] = "b64"
    IN  IF i = 0 THEN [rc |-> 0, msg |-> s]
        ELSE IF ~complete THEN Malformed
        ELSE [rc |-> 1,
              msg |-> SubSeq(s, 1, i - 1) \o SubSeq(s, end + 2, Len(s))]

(* The payload verifier_process_line hashes, and whether it recorded an      *)
(* error before that                                                         *)
ProcessLine(s) ==
    LET stripped == HcsStripSdFromLine(s)
        cert == HcsExtractAndStripCertSd(stripped.msg)
    IN  IF stripped.rc = -1 THEN [clean |-> FALSE, payload |-> << >>]
        ELSE IF cert.rc = -1 THEN [clean |-> FALSE, payload |-> stripped.msg]
        ELSE [clean |-> TRUE, payload |-> cert.msg]

-----------------------------------------------------------------------------
(* A message on its way through one signer after the other.  A relay parses  *)
(* the line it receives, so its signer sees the structured data the signer   *)
(* before it wrote (external: omrelp, imrelp and the parser).                *)

TextInit ==
    /\ host \in Hosts /\ elements \in ClientSDs /\ msg \in Texts
    /\ sd = FlattenSeq(elements)
    /\ hops = 0 /\ payload = << >>
    /\ embedded = FALSE /\ line = << >>

DoAction ==
    /\ hops < MaxHops /\ HeaderFits(host)
    /\ \E certified \in BOOLEAN :
           /\ embedded' = certified
           /\ sd' = NewSD(host, sd, certified)
    /\ payload' = Payload(host, sd, msg)
    /\ line' = sd' \o msg \o <<"NL">>
    /\ hops' = hops + 1
    /\ UNCHANGED <<host, elements, msg>>

(* hcs_format_sd_hdr fails: the action suspends, rsyslog comes again.        *)
Suspend == hops < MaxHops /\ ~HeaderFits(host) /\ UNCHANGED textVars

TextNext == DoAction \/ Suspend

TextSpec == TextInit /\ [][TextNext]_textVars

-----------------------------------------------------------------------------
(* The text variables hold texts, and a signed line begins with our element: *)
(* the verifier takes the first prefix it finds for it.                      *)
TextTypeOK ==
    /\ host \in Hosts /\ elements \in ClientSDs /\ msg \in Texts
    /\ sd \in Seq(Token) /\ payload \in Seq(Token)
    /\ line \in Seq(Token) /\ hops \in 0 .. MaxHops /\ embedded \in BOOLEAN
    /\ hops > 0 => At(line, Self, 1)

(* What the last signer kept of the structured data it was given             *)
Kept == SubSeq(payload, Len(HcsFormatSdHdr(host)) + 1, Len(payload) - Len(msg))

(* An element that ends, and one inside which a prefix of ours stands        *)
Whole(e) == e # << >> /\ SdScanElement(e)[2] = Len(e) + 1

QuotesOurs(e) == \E i \in 2 .. Len(e) : At(e, Self, i) \/ At(e, Hdr, i)

HoldsOurs(s) == Occurs(s, Self) \/ Occurs(s, Hdr)

(* The inductive invariant: a signed message is our elements and what the    *)
(* signer kept, and the payload ends with the same text (doAction 602-692).  *)
(* What was kept of well-formed elements opens none that a signer strips.    *)
(* Without that condition it may: hcs_strip_all_sd is one pass, and taking   *)
(* an element out of "[mmhashchainsigs[mmhashchainsigs@32473 x]@32473 y]"    *)
(* joins a new prefix, which the signer keeps.                               *)
TextInv ==
    /\ hops = 0 => sd = FlattenSeq(elements)
    /\ hops > 0 =>
          /\ Kept \in Seq(Token)
          /\ payload = HcsFormatSdHdr(host) \o Kept \o msg
          /\ sd = Self \o <<"sd", "]">>
                    \o (IF embedded THEN HcsFormatSdCert ELSE << >>)
                    \o HcsFormatSdHdr(host) \o Kept
          /\ line = sd \o msg \o <<"NL">>
          /\ (\A i \in DOMAIN elements :
                 Whole(elements[i]) /\ ~QuotesOurs(elements[i])) => ~HoldsOurs(Kept)

Holds(s, tok) == \E i \in DOMAIN s : s[i] = tok

(* A line reads back as the payload that was signed exactly when: no newline *)
(* is in it and no carriage return at its end; the rest of the line fits the *)
(* verifier's buffer; and the first certificate element after ours is our    *)
(* own, or there is none (mmhashchainsigs.c:659 says "what it hashes is      *)
(* exactly these bytes").                                                    *)
Transparent ==
    /\ ~Holds(payload, "NL") /\ payload[Len(payload)] # "CR"
    /\ Len(sd) + Len(msg) - 4 < MsgBufLen
    /\ embedded \/ ~Occurs(payload, Cert)

ReadsBackExactly ==
    hops > 0 =>
        ((ProcessLine(ReadLine(line)) = [clean |-> TRUE, payload |-> payload])
            <=> Transparent)

(* Taking our elements out of a client's structured data takes all of them   *)
(* and nothing else, unless an element has no end or one of our prefixes     *)
(* stands inside one (mmhashchainsigs.c:613, two passes of hcs_strip_all_sd).*)
StripsOnlyOurs ==
    hops = 0 /\ (\A i \in DOMAIN elements :
                    Whole(elements[i]) /\ ~QuotesOurs(elements[i])) =>
        StripClientSD(sd) =
            FlattenSeq([i \in DOMAIN elements |->
                IF At(elements[i], Self, 1) \/ At(elements[i], Hdr, 1)
                THEN << >> ELSE elements[i]])

(* A relay that signs a signed line again hashes what the first signer did,  *)
(* header included, exactly when the first one neither added its certificate *)
(* nor kept a text in which its own stripping had joined one of our prefixes *)
(* (src/README.md:446 has every such element removed by the first one).      *)
ResigningIsStable ==
    [][hops > 0 /\ hops' > hops =>
          (payload' = payload <=> ~embedded /\ ~HoldsOurs(Kept))]_textVars
=============================================================================
