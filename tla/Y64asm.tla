------------------------------ MODULE Y64asm ------------------------------
(***************************************************************************)
(* The assembler lab6/y64asm.c.  It reads a program line by line into a list *)
(* of lines with their addresses and bytes, with a table of the labels and   *)
(* one of the operands that name a label, then fills in those operands, then *)
(* writes the bytes to a file.                                               *)
(*                                                                           *)
(* A line is a label, or NoLabel, and a statement: what parse_line() makes   *)
(* of the text after the label.  The kinds of statement are                  *)
(*   comment     nothing, or a comment;                                      *)
(*   plain       an instruction without a value, of one or two bytes;        *)
(*   displaced   rmmovq and mrmovq;                                          *)
(*   irmovq, jmp, call;                                                      *)
(*   data        .byte, .word, .long and .quad;                              *)
(*   pos, align;                                                             *)
(*   unparsable  any other text;                                             *)
(*   invalid     irmovq with a $ that no number follows.                     *)
(* An operand is a number or a label.  The bytes for instruction and         *)
(* registers are told apart by their line only.  A byte has BYTE values.     *)
(***************************************************************************)
EXTENDS Integers, Sequences

CONSTANTS Labels, NoLabel,
          Statements,     \* the statements a program may have
          MAXLINES,       \* the length of the longest program
          MAXDEST,        \* the largest number jmp accepts, 100 in the code
          BYTE

ASSUME LabelAssumption == NoLabel \notin Labels
ASSUME BoundAssumption == {MAXLINES, MAXDEST} \subseteq Nat /\ BYTE \in Nat \ {0, 1}

VARIABLES phase,          \* what main() is doing: "assemble", ..., "done" or "failed"
          vmaddr,         \* the address of the next line
          symtab,         \* the labels so far, each with its address
          reltab,         \* the operands to fill in: line and label
          lines,          \* the list of lines
          written,        \* how many lines binfile() has been through
          old_vmaddr,     \* in binfile(): where the last bytes written end
          out             \* the file

vars == <<phase, vmaddr, symtab, reltab, lines, written, old_vmaddr, out>>

Number(v) == [label |-> NoLabel, value |-> v]
Name(s) == [label |-> s, value |-> 0]

Zero == <<"value", 0>>

\* Byte x of a value, from 0 on: (value >> (x * 8)) & 0xFF.
ByteOf(v, x) == (v \div BYTE ^ x) % BYTE

\* The bytes of a statement before its value.
Opcode(st) == CASE st.kind = "plain" -> st.bytes
                [] st.kind \in {"irmovq", "displaced"} -> 2
                [] st.kind \in {"jmp", "call"} -> 1
                [] OTHER -> 0

\* The bytes of line n with statement st and the value v.
Encoded(n, st, v) ==
  [x \in 1 .. st.bytes |-> IF x <= Opcode(st) THEN <<"opcode", n>>
                           ELSE <<"value", ByteOf(v, x - Opcode(st) - 1)>>]

Init ==
  /\ phase = "assemble"
  /\ vmaddr = 0
  /\ symtab = [s \in {} |-> 0]
  /\ reltab = <<>>
  /\ lines = <<>>
  /\ written = 0 /\ old_vmaddr = 0
  /\ out = <<>>

-----------------------------------------------------------------------------
(* assemble() and parse_line().                                             *)

Duplicate(label) == label \in DOMAIN symtab

Emits(st) == \/ st.kind \in {"plain", "displaced", "irmovq", "call", "data"}
             \/ st.kind = "jmp" /\ st.arg.value \in 0 .. MAXDEST

Places(st) == st.kind \in {"pos", "align"} /\ st.arg.label = NoLabel

Abs(x) == IF x < 0 THEN -x ELSE x

\* a / b as C has it, towards zero.
Quotient(a, b) == IF (a < 0) = (b < 0) THEN Abs(a) \div Abs(b) ELSE -(Abs(a) \div Abs(b))

\* The address that .pos or .align goes on at from address a.
Placed(st, a) == IF st.kind = "pos" THEN st.arg.value
                 ELSE LET q == Quotient(a, st.arg.value)
                      IN (IF q * st.arg.value = a THEN q ELSE q + 1) * st.arg.value

\* What parse_line() makes of a text: bytes only where it says so, and a label as
\* operand only of the instructions that take one.  .align 0 divides by zero.
ASSUME StatementAssumption ==
  \A st \in Statements :
    /\ st.bytes \in Nat /\ st.arg.label \in Labels \union {NoLabel} /\ st.arg.value \in Int
    /\ Emits(st) => st.bytes > 0
    /\ Emits(st) /\ st.arg.label # NoLabel => st.kind \in {"irmovq", "jmp", "call", "data"}
    /\ Places(st) /\ st.kind = "align" => st.arg.value # 0

\* Text that is not understood is an error, but not behind a label: there
\* line->type is TYPE_INS already.
Accepted(label, st) ==
  /\ ~Duplicate(label)
  /\ \/ Emits(st) \/ Places(st) \/ st.kind = "comment"
     \/ label # NoLabel /\ st.kind \notin {"invalid", "jmp"}

AddSymbol(label) ==
  symtab' = IF label = NoLabel THEN symtab
            ELSE [s \in DOMAIN symtab \union {label} |-> IF s = label THEN vmaddr ELSE symtab[s]]

Line(label, st) ==
  [label |-> label, st |-> st,
   addr |-> IF Places(st) THEN Placed(st, vmaddr) ELSE vmaddr,
   codes |-> IF Emits(st) THEN Encoded(Len(lines) + 1, st, st.arg.value) ELSE <<>>]

ParseLine(label, st) ==
  /\ phase = "assemble" /\ Len(lines) < MAXLINES
  /\ Accepted(label, st)
  /\ AddSymbol(label)
  /\ lines' = Append(lines, Line(label, st))
  /\ reltab' = IF Emits(st) /\ st.arg.label # NoLabel
               THEN Append(reltab, [line |-> Len(lines) + 1, label |-> st.arg.label])
               ELSE reltab
  /\ vmaddr' = Line(label, st).addr + Len(Line(label, st).codes)
  /\ UNCHANGED <<phase, written, old_vmaddr, out>>

RejectLine(label, st) ==
  /\ phase = "assemble" /\ Len(lines) < MAXLINES
  /\ ~Accepted(label, st)
  /\ lines' = Append(lines, Line(label, st))
  /\ phase' = "failed"
  /\ UNCHANGED <<vmaddr, symtab, reltab, written, old_vmaddr, out>>

EndOfFile ==
  /\ phase = "assemble"
  /\ phase' = "relocate"
  /\ UNCHANGED <<vmaddr, symtab, reltab, lines, written, old_vmaddr, out>>

-----------------------------------------------------------------------------
(* relocate() and binfile().                                                *)

\* Faulty variant: the value of jmp is taken to begin where that of irmovq does.
FirstRelocated_Irmovq(st) == IF st.kind = "data" THEN 1 ELSE 3

\* The first byte that relocate() fills in.
FirstRelocated(st) == CASE st.kind = "irmovq" -> 3
                        [] st.kind \in {"jmp", "call"} -> 2
                        [] st.kind = "data" -> 1

Relocated(codes, st, a) ==
  [x \in DOMAIN codes |-> IF x < FirstRelocated(st) THEN codes[x]
                          ELSE <<"value", ByteOf(a, x - FirstRelocated(st))>>]

Relocate ==
  /\ phase = "relocate" /\ reltab # <<>>
  /\ LET n == Head(reltab).line
         known == Head(reltab).label \in DOMAIN symtab
     IN /\ lines' = IF known
                    THEN [lines EXCEPT ![n].codes =
                            Relocated(@, lines[n].st, symtab[Head(reltab).label])]
                    ELSE lines
        /\ phase' = IF known THEN phase ELSE "failed"
  /\ reltab' = Tail(reltab)
  /\ UNCHANGED <<vmaddr, symtab, written, old_vmaddr, out>>

OpenFile ==
  /\ phase = "relocate" /\ reltab = <<>>
  /\ phase' = "binfile"
  /\ UNCHANGED <<vmaddr, symtab, reltab, lines, written, old_vmaddr, out>>

Zeros(n) == [x \in 1 .. n |-> Zero]

\* The file is only ever written at its end: if the address goes back, nothing
\* is skipped.
WriteLine ==
  /\ phase = "binfile" /\ written < Len(lines)
  /\ LET line == lines[written + 1]
     IN IF line.codes = <<>>
        THEN UNCHANGED <<out, old_vmaddr>>
        ELSE /\ out' = out \o Zeros(line.addr - old_vmaddr) \o line.codes
             /\ old_vmaddr' = line.addr + Len(line.codes)
  /\ written' = written + 1
  /\ UNCHANGED <<phase, vmaddr, symtab, reltab, lines>>

CloseFile ==
  /\ phase = "binfile" /\ written = Len(lines)
  /\ phase' = "done"
  /\ UNCHANGED <<vmaddr, symtab, reltab, lines, written, old_vmaddr, out>>

Next ==
  \/ \E label \in Labels \union {NoLabel}, st \in Statements :
       ParseLine(label, st) \/ RejectLine(label, st)
  \/ EndOfFile \/ Relocate \/ OpenFile \/ WriteLine \/ CloseFile

Spec == Init /\ [][Next]_vars

-----------------------------------------------------------------------------
(* What the text of a program means.                                        *)

Numbers == 1 .. Len(lines)

\* The bytes that line n stands for.
Bytes(n) == IF Emits(lines[n].st) THEN lines[n].st.bytes ELSE 0

\* Address[n] is where line n is, Address[n + 1] where the line behind it begins.
Address[n \in 1 .. Len(lines) + 1] ==
  IF n = 1 THEN 0
  ELSE IF Places(lines[n - 1].st) THEN Placed(lines[n - 1].st, Address[n - 1])
       ELSE Address[n - 1] + Bytes(n - 1)

\* The value of the operand of line n: a label stands for the address of the
\* line it is at.
Value(n) ==
  IF lines[n].st.arg.label = NoLabel THEN lines[n].st.arg.value
  ELSE Address[CHOOSE m \in Numbers : lines[m].label = lines[n].st.arg.label]

\* The bytes follow each other from 0 on, without a .pos back into what is there
\* already.
Forward ==
  /\ \A n \in Numbers : Bytes(n) > 0 => Address[n] >= 0
  /\ \A m, n \in Numbers : m < n /\ Bytes(m) > 0 /\ Bytes(n) > 0 =>
       Address[m] + Bytes(m) <= Address[n]

ByteAt(a) ==
  IF \E n \in Numbers : Bytes(n) > 0 /\ a \in Address[n] .. Address[n] + Bytes(n) - 1
  THEN LET n == CHOOSE n \in Numbers :
                  Bytes(n) > 0 /\ a \in Address[n] .. Address[n] + Bytes(n) - 1
       IN Encoded(n, lines[n].st, Value(n))[a - Address[n] + 1]
  ELSE Zero

Twice(label) == \E m, n \in Numbers : m # n /\ lines[m].label = label /\ lines[n].label = label

Undefined(n) == /\ Bytes(n) > 0
                /\ lines[n].st.arg.label # NoLabel
                /\ \A m \in Numbers : lines[m].label # lines[n].st.arg.label

\* Text that is not understood is left out silently if a label is before it.
NotUnderstood(n) ==
  LET st == lines[n].st
  IN /\ ~Emits(st) /\ ~Places(st) /\ st.kind # "comment"
     /\ lines[n].label = NoLabel \/ st.kind \in {"invalid", "jmp"}

Wrong == \/ \E label \in Labels : Twice(label)
         \/ \E n \in Numbers : Undefined(n) \/ NotUnderstood(n)

\* A program is refused exactly if a label is defined twice or used and not
\* defined, or a line is not understood.  Of any other program the file holds all
\* the bytes, at every address the one that the program puts there, with all labels
\* resolved, those defined later included, and zeros in the gaps: what a simulator
\* that loads it at address 0 is meant to see.
AssembledOrRefused ==
  phase \in {"done", "failed"} =>
    /\ phase = "failed" <=> Wrong
    /\ phase = "done" /\ Forward =>
         /\ \A n \in Numbers : Bytes(n) > 0 => Address[n] + Bytes(n) <= Len(out)
         /\ \A a \in 1 .. Len(out) : out[a] = ByteAt(a - 1)
=============================================================================
