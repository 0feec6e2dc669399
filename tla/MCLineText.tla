----------------------------- MODULE MCLineText ------------------------------
(* Definitions the configuration LineText.cfg gives to constants.            *)
EXTENDS LineText

UpTo(S, n) == UNION {[1 .. k -> S] : k \in 0 .. n}

HostValues == UpTo(ValueToken \ {Open}, 2) \cup {<<Open>>, <<Open, Quote>>}

(* A client's elements: an ordinary one; one whose value needs escapes; one  *)
(* that quotes a line of ours; one of each of ours, from a signer before;    *)
(* one of ours with a value that does not end; two around which a prefix is  *)
(* joined, by the first pass for a later signer, and by it for the second    *)
(* pass.                                                                     *)
SomeElements ==
    { <<App, Quote, "x", Quote, "]">>,
      <<App, Quote, Backslash, Quote, Backslash, "]", Quote, "]">>,
      <<App, Quote>> \o Self \o <<"x", Quote, "]">>,
      Self \o <<"sd", "]">>,
      Self \o <<Quote, "x", "]">>,
      Hdr \o <<Quote, "x", Quote, "]">>,
      Cert \o <<"cert=", Quote, "b64", Quote, "]">>,
      <<Open>> \o Self \o <<"x", "]", "@32473 ", "x", "]">>,
      <<Open>> \o Self \o <<"x", "]", "-hdr@32473 ", "x", "]">> }

ClientElements == UpTo(SomeElements, 2)

(* Message texts, among them one that quotes a whole certificate element     *)
MsgTexts ==
    UpTo({"x", Quote, "]", "NL", "CR"}, 2)
        \cup {Cert, <<"x">> \o Cert, Cert \o <<"x">>, Cert \o <<Quote>>,
              Self \o <<"x", "]">>,
              <<"x">> \o Cert \o <<"cert=", Quote, "b64", Quote, "]">>}
=============================================================================
