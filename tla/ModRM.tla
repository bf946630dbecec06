------------------------------- MODULE ModRM -------------------------------
(***************************************************************************)
(* Effective addresses as x86core/ixdecoder.c reads them from a ModRM byte *)
(* and, when there is one, a SIB byte.  An effective address is the record *)
(* ix_ea_t: base and index registers (NoReg when absent), the scale of the *)
(* index, the segment register and whether the displacement is one byte.   *)
(*                                                                         *)
(* The three decoders assign only the fields they find in the encoding and *)
(* leave the others as they were, so each takes the address to update.     *)
(***************************************************************************)
EXTENDS Integers

Byte == 0..255

\* ix_ea_t.base and ix_ea_t.index hold 31 when there is no such register.
NoReg == 31

\* prefix_state.sreg and ix_ea_t.sreg hold 7 when no segment was named, and
\* ix_ea_t.sreg holds 6 when the base register implies the stack segment.
NoSeg == 7
StackSeg == 6

Mod(c) == c \div 64
RegField(c) == (c \div 8) % 8
Rm(c) == c % 8

\* Bytes of displacement for a mod field of 1 or 2; full is the long form.
ModDisp(mod, full) == CASE mod = 1 -> 1 [] mod = 2 -> full [] OTHER -> 0

\* A memory form whose ModRM byte c is followed by a SIB byte: 16-bit
\* addresses have none.
HasSib_any_size(c, dsz, asz) == Mod(c) # 3 /\ Rm(c) = 4
HasSib(c, dsz, asz) == (dsz = 2 \/ asz # 0) /\ Mod(c) # 3 /\ Rm(c) = 4

decode_modrm_16(ea, c) ==
  LET mod == Mod(c)
      rm  == Rm(c)
      absolute == mod = 0 /\ rm = 6
  IN  [ea   |-> [ea EXCEPT
                  !.index = IF rm < 6 THEN 6 + (rm % 2) ELSE @,
                  !.base  = CASE rm < 4                 -> 3 + 2 * (rm \div 2)
                              [] rm = 6 /\ ~absolute    -> 5
                              [] rm = 7                 -> 3
                              [] OTHER                  -> @],
       disp |-> IF absolute THEN 2 ELSE ModDisp(mod, 2)]

decode_modrm_32(ea, c, sib, mode64, rexX) ==
  LET mod == Mod(c)
      rm  == Rm(c)
      baseField == IF rm = 4 THEN Rm(sib) ELSE rm
      noBase    == mod = 0 /\ baseField = 5
      indexed   == rm = 4 /\ (RegField(sib) # 4 \/ (mode64 /\ rexX = 1))
  IN  [ea   |-> [ea EXCEPT
                  !.base  = IF noBase THEN @ ELSE baseField,
                  !.index = IF indexed THEN RegField(sib) ELSE @,
                  !.scale = IF indexed THEN Mod(sib) ELSE @],
       disp |-> IF noBase THEN 4 ELSE ModDisp(mod, 4)]

\* (c & 0xc7) == 5: in 64-bit mode the displacement is relative to rip.
RipRelative(c) == Mod(c) = 0 /\ Rm(c) = 5

Extend(reg, rex) == IF reg = NoReg THEN reg ELSE reg + 8 * rex

decode_modrm_64(ea, c, sib, rexX, rexB) ==
  LET m == decode_modrm_32(ea, c, sib, TRUE, rexX)
  IN  IF RipRelative(c) THEN m
      ELSE [m EXCEPT !.ea.base = Extend(@, rexB), !.ea.index = Extend(@, rexX)]

\* The dispatch in get_modrm on the mode and the address size.
decode_modrm(ea, c, sib, dsz, asz, rexX, rexB) ==
  CASE dsz = 2             -> decode_modrm_64(ea, c, sib, rexX, rexB)
    [] dsz # 2 /\ asz = 0  -> decode_modrm_16(ea, c)
    [] OTHER               -> decode_modrm_32(ea, c, sib, FALSE, rexX)

\* (base & 6) == 4 with a base and no segment prefix selects SS.
UsesStackSeg(base) == base # NoReg /\ (base \div 2) % 4 = 2
=============================================================================
