--------------------------- MODULE MCDecoderTable ---------------------------
(***************************************************************************)
(* Scripts of up to three encodings that have to do with each other, for a *)
(* machine with two registers and four opcode bytes.                       *)
(***************************************************************************)
EXTENDS DecoderTableProps

H(b) == Token("hex", b)
Amp(b) == Token("&", b)
Slash(n) == Token("/", n)
SlashR == Slash(RegR)
Mod(n) == Token("mod", n)
Rm(n) == Token("rm", n)
Op66 == Token("op66", 2)
No66 == Token("op66", 1)
NoFx == Token("fx", 0)
F2 == Token("fx", 2)
F3 == Token("fx", 3)
ESC == H(Escape)

\* Opcode 1 with and without prefixes, fields and modes, and behind Escape;
\* opcodes 0 and 1 as a row of registers; encodings that are wrong.
Plain(tokens) == [tokens |-> tokens, tags |-> {}]
Tagged(tokens, tag) == [tokens |-> tokens, tags |-> {tag}]
Few ==
  {Plain(<<H(1), Slash(0)>>), Plain(<<H(1), Slash(1), Mod(ModMem)>>),
   Plain(<<H(1), Slash(1), Mod(3)>>), Plain(<<H(1), Slash(1), Mod(3), Rm(0)>>),
   Plain(<<H(1), Slash(1), Mod(3), Rm(1)>>),
   Tagged(<<H(1), SlashR>>, "like_arpl"), Tagged(<<H(1), SlashR>>, "like_movsxd")}
FewPrefixed ==
  {Plain(<<Op66, H(1), SlashR>>), Plain(<<No66, NoFx, H(1), Slash(0)>>),
   Plain(<<F3, H(1), Slash(1), Mod(ModMem)>>), Plain(<<No66, F2, H(1), SlashR>>),
   Plain(<<No66, F3, H(1), Slash(1), Mod(3)>>)}
Others ==
  {Plain(<<H(1)>>), Plain(<<H(1), SlashR>>), Plain(<<ESC, H(1)>>),
   Plain(<<ESC, H(1), Amp(2), SlashR>>),
   Plain(<<Op66, ESC, H(1), Amp(0), SlashR, Mod(ModMem)>>),
   Tagged(<<H(0)>>, "reg_base"), Tagged(<<ESC, H(1)>>, "reg_base"),
   Plain(<<H(2), F2>>), Plain(<<H(1), H(2)>>), Plain(<<H(1), Amp(0), Amp(1)>>),
   Plain(<<H(1), ESC>>), Plain(<<H(1), Mod(3)>>),
   Plain(<<H(1), Token("other", 0)>>)}

\* An encoding of the n-th instruction in the order of names.
Of(n, e) == [insn |-> n, tokens |-> e.tokens, tags |-> e.tags]
All == Few \cup FewPrefixed \cup Others

MCScripts ==
  {<<Of(m, d), Of(n, e)>> : m, n \in {1, 2}, d, e \in All}
    \cup {<<Of(2, d), Of(1, e), Of(1, f)>> : d, e, f \in Few}
    \cup {<<Of(2, d), Of(2, e), Of(1, f)>> : d, e, f \in FewPrefixed}

MCStreams == {<<a, b, c>> : a \in Byte, b \in 0..2, c \in {0, 2}}
=============================================================================
