----------------------------- MODULE MCFraming -----------------------------
(***************************************************************************)
(* Framing on small instances.                                             *)
(***************************************************************************)
EXTENDS Framing

\* Two bytes stand for the 36 of HS_IN.
MCMagic == <<86, 105>>

\* The right greeting, one of an older version, one without the terminator,
\* one of another protocol, and one that goes wrong only at the second byte.
MCGreetings ==
  {<<86, 105, 0, 6>>, <<86, 105, 0, 5>>, <<86, 105, 32, 0, 6>>, <<71, 69>>,
   <<86, 70, 0, 6>>}

\* Packets of one and of three bytes, some of them bytes that could be lengths.
MCBodies == {<<1>>, <<3, 0, 1>>}

\* As above, and one with a byte that makes a length negative.
MCBodiesHigh == {<<1>>, <<3, 0, 200>>}

MCOneGreeting == {<<86, 105, 0, 6>>}
=============================================================================
