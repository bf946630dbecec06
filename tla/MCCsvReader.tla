---------------------------- MODULE MCCsvReader ----------------------------
(***************************************************************************)
(* Every text of up to MaxText characters: an ordinary one and each one    *)
(* that means something.                                                   *)
(***************************************************************************)
EXTENDS CsvReaderProps

CONSTANTS MaxText, Letter

MCCharacters == {Letter, Quote, Comma, Newline, Blank}
MCTexts == UNION {[1..n -> MCCharacters] : n \in 0..MaxText}
=============================================================================
