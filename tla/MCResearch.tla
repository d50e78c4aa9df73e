----------------------------- MODULE MCResearch -----------------------------
(* Recordings of six bars, two parameter sets, two symbols.  The capital   *)
(* covers the first order and its costs; the second one is cut.            *)
EXTENDS NoLookAhead

Bar(o, c, up, rising, reg, raw, en, ex) ==
    [open |-> o, close |-> c, above |-> up, rising |-> rising, regime |-> reg,
     raw |-> raw, entry |-> en, exit |-> ex]

Bull  == Bar(1, 2, TRUE,  TRUE,  "trend",    8, TRUE,  FALSE)
Peak  == Bar(3, 4, TRUE,  TRUE,  "trend",    8, FALSE, FALSE)
Fade  == Bar(5, 4, TRUE,  TRUE,  "chop",    -4, FALSE, TRUE)
Bear  == Bar(5, 2, FALSE, FALSE, "high_vol", 8, FALSE, TRUE)
Dip   == Bar(3, 2, FALSE, FALSE, "chop",     8, TRUE,  FALSE)
Crash == Bar(1, 2, TRUE,  TRUE,  "crash",    8, TRUE,  TRUE)

Recordings ==
    {<<Bull, Peak, Bear, Bull, Peak, Fade>>, <<Bull, Peak, Bear, Bull, Peak, Crash>>,
     <<Bull, Peak, Fade, Dip, Bear, Bull>>, <<Peak, Bear, Peak, Fade, Dip, Peak>>,
     <<Peak, Bear, Peak, Bear, Peak, Bear>>, <<Dip, Crash, Dip, Peak, Peak, Fade>>,
     <<Bull, Bull, Fade, Bear, Peak, Fade>>}

Preset(warm, chop, bypass, entry) ==
    [warmup |-> warm, chop |-> chop, bypass |-> bypass, entry |-> entry, exit |-> -10, band |-> 15]
Presets == <<Preset(1, 5, FALSE, 30), Preset(1, 8, TRUE, 20)>>

Gain(c) == 1000 * (c[Len(c)] - c[1])
Two     == <<"ETH", "CAKE">>
=============================================================================
