---------------------------- MODULE MCCodecvtOut ----------------------------
(* UTF-16 and UTF-32 texts, and an encoding of one to four bytes that lacks  *)
(* some characters.                                                          *)
EXTENDS CodecvtOut

\* UTF-8 without the Euro sign, as a code page may lack it.
NoEuro(cp) == IF cp = 8364 THEN <<>> ELSE encode8(cp)

SmileHigh == 55357
SmileLow == 56832
LinearHigh == 55296
LinearLow == 56320

Utf16Texts ==
    {<<>>, <<65, 233>>, <<SmileHigh, SmileLow, 65>>, <<2364, SmileHigh, SmileLow>>,
     <<LinearHigh, LinearLow, SmileHigh, SmileLow>>, <<233, 8364, 65>>,
     <<SmileHigh, SmileHigh, SmileLow>>, <<65, SmileLow>>, <<233, SmileHigh>>,
     <<SmileHigh, 65, 65>>}
Utf32Texts ==
    {<<233, 65, 255>>, <<65, 8364, 65>>, <<233, 55296>>, <<65, 1114112>>, <<65, 65, 128512>>}

Texts2(ts) == {[size |-> 2, units |-> t] : t \in ts}
MCTexts == Texts2(Utf16Texts) \cup {[size |-> 4, units |-> t] : t \in Utf32Texts}
=============================================================================
