----------------------------- MODULE MCCodecvtIn -----------------------------
(* UTF-8 texts with characters of one to four bytes, and malformed ones. *)
EXTENDS CodecvtIn

Utf8(s) == decode8(s)

Letter == <<65>>
Accent == <<195, 169>>
Euro == <<226, 130, 172>>
Smile == <<240, 159, 152, 128>>
Linear == <<240, 144, 128, 128>>

Utf16Texts ==
    {<<>>, Letter \o Accent, Smile \o Letter, Linear \o Smile, Euro \o Smile,
     Smile \o Smile \o Letter,
     Smile \o SubSeq(Smile, 1, 3), Letter \o Smile \o <<255>>, Smile \o <<128>> \o Letter}
Utf32Texts ==
    {Accent \o Smile \o Letter, Letter \o SubSeq(Smile, 1, 3), Smile \o <<255>>}

MCTexts ==
    {[size |-> 2, bytes |-> t] : t \in Utf16Texts} \cup {[size |-> 4, bytes |-> t] : t \in Utf32Texts}
=============================================================================
