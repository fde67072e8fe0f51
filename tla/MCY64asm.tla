------------------------------ MODULE MCY64asm ------------------------------
(***************************************************************************)
(* Instances of Y64asm.                                                     *)
(***************************************************************************)
EXTENDS Y64asm, TLC

CONSTANTS a, b

St(kind, bytes, arg) == [kind |-> kind, bytes |-> bytes, arg |-> arg]

\* The numbers make addresses pass BYTE, go back, and stay.
AllStatements ==
  {St("comment", 0, Number(0)), St("plain", 2, Number(0)), St("displaced", 10, Number(20)),
   St("irmovq", 10, Number(5)), St("irmovq", 10, Name(a)), St("jmp", 9, Name(b)),
   St("jmp", 9, Number(5)), St("jmp", 9, Number(101)), St("call", 9, Name(a)),
   St("data", 1, Name(b)), St("data", 8, Name(a)), St("data", 2, Number(19)),
   St("pos", 0, Number(0)), St("pos", 0, Number(15)), St("pos", 0, Name(a)),
   St("pos", 0, Number(-3)), St("align", 0, Number(-4)),
   St("align", 0, Number(8)), St("unparsable", 0, Number(0)), St("invalid", 0, Number(0))}
=============================================================================
