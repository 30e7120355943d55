---------------------- MODULE MCInstrumentationFlags ----------------------
(***************************************************************************)
(* Every line of up to MaxLength characters after the program name, out of *)
(* a letter and the three characters that tokenizing looks at.             *)
(***************************************************************************)
EXTENDS InstrumentationFlags

CONSTANT MaxLength

Alphabet == {"f", Blank, Quote, Backslash}
MCLines == {Missing} \cup {<<"_", " ">> \o s : s \in SeqOf(Alphabet, MaxLength)}
MCDisableFre == <<"f">>
MCTestIntents == <<"i">>
MCAdditionalFlags == <<<<"a">>>>
MCDeviceFlags == <<<<"d">>, <<"i">>>>
=============================================================================
