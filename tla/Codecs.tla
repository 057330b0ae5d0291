------------------------------- MODULE Codecs -------------------------------
(***************************************************************************)
(* What the library makes of bytes, side by side: packs in TLS records,    *)
(* messages, the legacy stream, both ciphers and the counting of nonces.   *)
(* They share no state, so each behaviour is one of them.                  *)
(***************************************************************************)
EXTENDS MessageExchange, StreamExchange, Crypt, CryptOCB2, NonceDigits, Framing

VARIABLE working

codecsVars ==
  <<working, exchangeVars, streamVars, cryptVars, ocb2Vars, digitsVars, framingVars>>

Init ==
  /\ working \in {"messages", "stream", "Crypt", "CryptOCB2", "nonce", "frames"}
  /\ ExchangeInit /\ StreamInit /\ CryptInit /\ OCB2Init /\ DigitsInit /\ FramingInit

Next ==
  \/ /\ working = "messages" /\ ExchangeNext
     /\ UNCHANGED <<working, streamVars, cryptVars, ocb2Vars, digitsVars, framingVars>>
  \/ /\ working = "stream" /\ StreamNext
     /\ UNCHANGED <<working, exchangeVars, cryptVars, ocb2Vars, digitsVars, framingVars>>
  \/ /\ working = "Crypt" /\ CryptNext
     /\ UNCHANGED <<working, exchangeVars, streamVars, ocb2Vars, digitsVars, framingVars>>
  \/ /\ working = "CryptOCB2" /\ OCB2Next
     /\ UNCHANGED <<working, exchangeVars, streamVars, cryptVars, digitsVars, framingVars>>
  \/ /\ working = "nonce" /\ DigitsNext
     /\ UNCHANGED <<working, exchangeVars, streamVars, cryptVars, ocb2Vars, framingVars>>
  \/ /\ working = "frames" /\ FramingNext
     /\ UNCHANGED <<working, exchangeVars, streamVars, cryptVars, ocb2Vars, digitsVars>>

Spec == Init /\ [][Next]_codecsVars
=============================================================================
