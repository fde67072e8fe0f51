---------------------------- MODULE Y64asmProofs ----------------------------
(***************************************************************************)
(* The assembler assembles every program that is right, of any length, and  *)
(* refuses every other.                                                     *)
(*                                                                          *)
(* The addresses that a program means are a recursion over its lines.  The  *)
(* assembler holds them already: line n begins where line n - 1 ends, which *)
(* is Begin(n), without a recursion.  The invariant speaks of Begin, and    *)
(* BeginIsAddress shows once that the two agree.                            *)
(***************************************************************************)
EXTENDS Y64asm, TLAPS, FiniteSetTheorems, WellFoundedInduction

\* Every nonempty set of natural numbers has a least element.
LEMMA NatLeast ==
  ASSUME NEW T, T \subseteq Nat, T # {}
  PROVE  \E x \in T : \A y \in T : x <= y
<1> DEFINE Below == {p \in Nat \X Nat : p[1] < p[2]}
<1>1. IsWellFoundedOn(Below, Nat)
  BY NatLessThanWellFounded DEF OpToRel
<1>2. PICK x \in T : \A y \in T : <<y, x>> \notin Below
  BY <1>1, WFMin
<1>3. ASSUME NEW y \in T
      PROVE  x <= y
  <2>1. x \in Nat /\ y \in Nat
    OBVIOUS
  <2>2. <<y, x>> \notin Below
    BY <1>2
  <2> QED BY <2>1, <2>2
<1> QED BY <1>3

Byte == {<<"opcode", n>> : n \in Nat} \union
        {<<"value", ByteOf(v, x)>> : v \in Int, x \in Int} \union {Zero}

LineType == [label : Labels \union {NoLabel}, st : Statements, addr : Int, codes : Seq(Byte)]

TypeOK ==
  /\ phase \in {"assemble", "relocate", "binfile", "done", "failed"}
  /\ vmaddr \in Int
  /\ symtab \in UNION {[D -> Int] : D \in SUBSET Labels}
  /\ reltab \in Seq([line : Nat, label : Labels])
  /\ lines \in Seq(LineType)
  /\ written \in 0 .. Len(lines)
  /\ old_vmaddr \in Int
  /\ out \in Seq(Byte)

\* Where line n begins: where the line before it ends.
Begin(n) == IF n = 1 THEN 0 ELSE lines[n - 1].addr + Len(lines[n - 1].codes)

\* Every line is where the one before it ends, or where it says.
Laid ==
  /\ \A n \in Numbers : lines[n].addr = IF Places(lines[n].st)
                                        THEN Placed(lines[n].st, Begin(n)) ELSE Begin(n)
  /\ phase = "assemble" => vmaddr = Begin(Len(lines) + 1)

\* The bytes of a line are those of its statement, for some value.
Coded ==
  \A n \in Numbers :
    /\ Emits(lines[n].st) => \E v \in Int : lines[n].codes = Encoded(n, lines[n].st, v)
    /\ ~Emits(lines[n].st) => lines[n].codes = <<>>

\* The table of labels is that of the lines so far, each label once.
Named ==
  phase # "failed" =>
    /\ \A n \in Numbers : ~NotUnderstood(n)
    /\ \A n \in Numbers : lines[n].label # NoLabel =>
         lines[n].label \in DOMAIN symtab /\ symtab[lines[n].label] = Begin(n)
    /\ \A m, n \in Numbers : lines[m].label = lines[n].label /\ lines[m].label # NoLabel => m = n
    /\ \A s \in DOMAIN symtab : \E n \in Numbers : lines[n].label = s

\* The operand of line n is still to be filled in.
Pending(n) == \E i \in 1 .. Len(reltab) : reltab[i].line = n

\* Every operand has its value, or is still to be filled in.
Filled ==
  phase # "failed" =>
    /\ \A i \in 1 .. Len(reltab) :
         /\ reltab[i].line \in Numbers
         /\ Emits(lines[reltab[i].line].st)
         /\ lines[reltab[i].line].st.arg.label = reltab[i].label
    /\ \A n \in Numbers : Emits(lines[n].st) =>
         LET arg == lines[n].st.arg
         IN IF arg.label = NoLabel
            THEN lines[n].codes = Encoded(n, lines[n].st, arg.value)
            ELSE \/ Pending(n)
                 \/ /\ arg.label \in DOMAIN symtab
                    /\ lines[n].codes = Encoded(n, lines[n].st, symtab[arg.label])
    /\ phase \in {"binfile", "done"} => reltab = <<>>

\* Forward, in terms of Begin.
Ordered ==
  /\ \A n \in Numbers : Bytes(n) > 0 => Begin(n) >= 0
  /\ \A m, n \in Numbers : m < n /\ Bytes(m) > 0 /\ Bytes(n) > 0 =>
       Begin(m) + Bytes(m) <= Begin(n)

\* The file ends where the last line gone through does, and holds the bytes of
\* these lines and zeros.
FileSoFar ==
  /\ Len(out) = old_vmaddr
  /\ \/ old_vmaddr = 0
     \/ \E m \in 1 .. written : Bytes(m) > 0 /\ old_vmaddr = Begin(m) + Bytes(m)
  /\ \A m \in 1 .. written : Bytes(m) > 0 =>
       /\ Begin(m) + Bytes(m) <= old_vmaddr
       /\ \A x \in 1 .. Bytes(m) : out[Begin(m) + x] = lines[m].codes[x]
  /\ \A a \in 1 .. Len(out) :
       \/ out[a] = Zero
       \/ \E m \in 1 .. written : Bytes(m) > 0 /\ a \in Begin(m) + 1 .. Begin(m) + Bytes(m)

Filed ==
  /\ phase \in {"assemble", "relocate"} => written = 0 /\ old_vmaddr = 0 /\ out = <<>>
  /\ phase = "done" => written = Len(lines)
  /\ phase \in {"binfile", "done"} /\ Ordered => FileSoFar

Refused == phase = "failed" => Wrong

\* The inductive invariant.
AsmInv == TypeOK /\ Laid /\ Coded /\ Named /\ Filled /\ Filed /\ Refused

-----------------------------------------------------------------------------
(* Bytes, lines and addresses.                                              *)

\* What the assumptions say of one statement.
LEMMA StatementType ==
  ASSUME NEW st \in Statements
  PROVE  /\ st.bytes \in Nat /\ st.arg.label \in Labels \union {NoLabel} /\ st.arg.value \in Int
         /\ Emits(st) => st.bytes > 0
         /\ Emits(st) /\ st.arg.label # NoLabel => st.kind \in {"irmovq", "jmp", "call", "data"}
         /\ Places(st) /\ st.kind = "align" => st.arg.value # 0
BY StatementAssumption

\* An encoding is as long as its statement says.
LEMMA EncodedType ==
  ASSUME NEW n \in Nat, NEW st \in Statements, NEW v \in Int
  PROVE  Encoded(n, st, v) \in Seq(Byte) /\ Len(Encoded(n, st, v)) = st.bytes
<1>1. st.bytes \in Nat /\ Opcode(st) \in Int
  BY StatementType DEF Opcode
<1>2. ASSUME NEW x \in 1 .. st.bytes
      PROVE  (IF x <= Opcode(st) THEN <<"opcode", n>>
              ELSE <<"value", ByteOf(v, x - Opcode(st) - 1)>>) \in Byte
  <2>1. CASE x <= Opcode(st)
    BY <2>1 DEF Byte
  <2>2. CASE ~(x <= Opcode(st))
    <3> DEFINE y == x - Opcode(st) - 1
    <3>1. y \in Int
      BY <1>1
    <3>2. <<"value", ByteOf(v, y)>> \in Byte
      <4> HIDE DEF y
      <4> QED BY <3>1 DEF Byte
    <3> QED BY <2>2, <3>2
  <2> QED BY <2>1, <2>2
<1> DEFINE f == Encoded(n, st, v)
<1>3. f \in [1 .. st.bytes -> Byte]
  BY <1>2 DEF Encoded
<1>4. f \in Seq(Byte) /\ Len(f) = st.bytes
  <2> HIDE DEF f
  <2> QED BY <1>1, <1>3
<1> QED BY <1>4

\* Filling in a value leaves what an encoding with that value holds.
LEMMA RelocatedEncoded ==
  ASSUME NEW n \in Nat, NEW st \in Statements, NEW v \in Int, NEW a \in Int,
         Emits(st), st.arg.label # NoLabel
  PROVE  Relocated(Encoded(n, st, v), st, a) = Encoded(n, st, a)
<1>1. st.kind \in {"irmovq", "jmp", "call", "data"} /\ st.bytes \in Nat
  BY StatementType
<1>2. FirstRelocated(st) = Opcode(st) + 1 /\ Opcode(st) \in Int
  BY <1>1 DEF FirstRelocated, Opcode
<1>3. DOMAIN Encoded(n, st, v) = 1 .. st.bytes
  BY DEF Encoded
<1>4. ASSUME NEW x \in 1 .. st.bytes
      PROVE  (IF x < FirstRelocated(st) THEN Encoded(n, st, v)[x]
              ELSE <<"value", ByteOf(a, x - FirstRelocated(st))>>)
             = IF x <= Opcode(st) THEN <<"opcode", n>>
               ELSE <<"value", ByteOf(a, x - Opcode(st) - 1)>>
  <2>1. CASE x <= Opcode(st)
    BY <2>1, <1>2 DEF Encoded
  <2>2. CASE ~(x <= Opcode(st))
    <3>1. x - FirstRelocated(st) = x - Opcode(st) - 1 /\ ~(x < FirstRelocated(st))
      BY <2>2, <1>2
    <3> QED BY <2>2, <3>1
  <2> QED BY <2>1, <2>2
<1> QED BY <1>3, <1>4 DEF Relocated, Encoded

\* .pos and .align go on at an address.
LEMMA PlacedType ==
  ASSUME NEW st \in Statements, Places(st), NEW a \in Int
  PROVE  Placed(st, a) \in Int
<1>1. st.arg.value \in Int
  BY StatementType
<1>2. CASE st.kind = "pos"
  BY <1>1, <1>2 DEF Placed
<1>3. CASE st.kind # "pos"
  <2>1. st.arg.value # 0
    BY <1>3, StatementType DEF Places
  <2> DEFINE v == st.arg.value
             d == Abs(a) \div Abs(v)
             q == Quotient(a, v)
  <2>2. Abs(a) \in Nat /\ Abs(v) \in Nat \ {0}
    BY <1>1, <2>1 DEF Abs
  <2>3. d \in Int
    BY <2>2
  <2>4. q \in Int
    BY <2>3 DEF Quotient
  <2>5. (IF q * v = a THEN q ELSE q + 1) \in Int
    BY <2>4
  <2>6. (IF q * v = a THEN q ELSE q + 1) * v \in Int
    BY <2>5, <1>1
  <2> QED BY <2>6, <1>3 DEF Placed
<1> QED BY <1>2, <1>3

\* A line that is read is a line, and as long as its statement says.
LEMMA LineIsLine ==
  ASSUME TypeOK, NEW label \in Labels \union {NoLabel}, NEW st \in Statements
  PROVE  /\ Line(label, st) \in LineType
         /\ Line(label, st).label = label /\ Line(label, st).st = st
         /\ Emits(st) => /\ Line(label, st).codes = Encoded(Len(lines) + 1, st, st.arg.value)
                         /\ Len(Line(label, st).codes) = st.bytes
         /\ ~Emits(st) => Line(label, st).codes = <<>> /\ Len(Line(label, st).codes) = 0
<1>1. vmaddr \in Int /\ Len(lines) \in Nat /\ st.arg.value \in Int
  BY StatementType DEF TypeOK
<1> DEFINE a == IF Places(st) THEN Placed(st, vmaddr) ELSE vmaddr
           e == IF Emits(st) THEN Encoded(Len(lines) + 1, st, st.arg.value) ELSE <<>>
<1>2. a \in Int
  BY <1>1, PlacedType
<1>3. /\ e \in Seq(Byte)
      /\ Emits(st) => e = Encoded(Len(lines) + 1, st, st.arg.value) /\ Len(e) = st.bytes
      /\ ~Emits(st) => e = <<>> /\ Len(e) = 0
  <2>1. Len(lines) + 1 \in Nat
    BY <1>1
  <2>2. CASE Emits(st)
    BY <1>1, <2>1, <2>2, EncodedType
  <2>3. CASE ~Emits(st)
    BY <2>3
  <2> QED BY <2>2, <2>3
<1>4. Line(label, st) = [label |-> label, st |-> st, addr |-> a, codes |-> e]
  BY DEF Line
<1> HIDE DEF a, e
<1> QED BY <1>2, <1>3, <1>4 DEF LineType

\* What a line is.
LEMMA LineOf ==
  ASSUME TypeOK, NEW n \in Numbers
  PROVE  /\ lines[n] \in LineType /\ lines[n].st \in Statements
         /\ lines[n].label \in Labels \union {NoLabel}
         /\ lines[n].addr \in Int /\ lines[n].codes \in Seq(Byte)
         /\ Len(lines[n].codes) \in Nat /\ n \in Nat
<1>1. lines \in Seq(LineType) /\ n \in 1 .. Len(lines)
  BY DEF TypeOK, Numbers
<1>2. lines[n] \in LineType /\ n \in Nat
  BY <1>1
<1>3. lines[n].codes \in Seq(Byte)
  BY <1>2 DEF LineType
<1> QED BY <1>2, <1>3 DEF LineType

LEMMA BeginType ==
  ASSUME TypeOK, NEW n \in 1 .. Len(lines) + 1
  PROVE  Begin(n) \in Int
<1>1. Len(lines) \in Nat
  BY DEF TypeOK
<1>2. CASE n = 1
  BY <1>2 DEF Begin
<1>3. CASE n # 1
  <2>1. n - 1 \in Numbers
    BY <1>1, <1>3 DEF Numbers
  <2> QED BY <1>3, <2>1, LineOf DEF Begin
<1> QED BY <1>2, <1>3

-----------------------------------------------------------------------------
(* The types.                                                               *)

\* Zeros are bytes; there are none if the gap is not positive.
LEMMA ZerosType ==
  ASSUME NEW n \in Int
  PROVE  /\ Zeros(n) \in Seq(Byte)
         /\ Len(Zeros(n)) = IF n > 0 THEN n ELSE 0
         /\ \A x \in 1 .. Len(Zeros(n)) : Zeros(n)[x] = Zero
<1> DEFINE k == IF n > 0 THEN n ELSE 0
<1>1. k \in Nat /\ 1 .. n = 1 .. k
  OBVIOUS
<1>2. Zeros(n) = [x \in 1 .. k |-> Zero] /\ Zero \in Byte
  BY <1>1 DEF Zeros, Byte
<1> HIDE DEF k
<1>3. Zeros(n) \in [1 .. k -> Byte]
  BY <1>2
<1>4. Zeros(n) \in Seq(Byte) /\ Len(Zeros(n)) = k
  BY <1>1, <1>3
<1>5. \A x \in 1 .. Len(Zeros(n)) : Zeros(n)[x] = Zero
  BY <1>2, <1>4
<1> QED BY <1>4, <1>5 DEF k

\* What the list is after a line has been read, accepted or not.
LEMMA Appended ==
  ASSUME TypeOK, NEW label \in Labels \union {NoLabel}, NEW st \in Statements,
         lines' = Append(lines, Line(label, st))
  PROVE  /\ lines' \in Seq(LineType) /\ Len(lines') = Len(lines) + 1 /\ Len(lines) \in Nat
         /\ lines'[Len(lines) + 1] = Line(label, st)
         /\ \A n \in Numbers : lines'[n] = lines[n]
         /\ Numbers' = Numbers \union {Len(lines) + 1}
         /\ \A n \in Numbers' : Begin(n)' = Begin(n)
<1>1. lines \in Seq(LineType) /\ Line(label, st) \in LineType
  BY LineIsLine DEF TypeOK
<1>2. /\ lines' \in Seq(LineType) /\ Len(lines') = Len(lines) + 1 /\ Len(lines) \in Nat
      /\ lines'[Len(lines) + 1] = Line(label, st)
      /\ \A n \in 1 .. Len(lines) : lines'[n] = lines[n]
  BY <1>1
<1>3. Numbers' = Numbers \union {Len(lines) + 1}
  BY <1>2 DEF Numbers
<1>4. ASSUME NEW n \in Numbers' PROVE Begin(n)' = Begin(n)
  <2>1. CASE n = 1
    BY <2>1 DEF Begin
  <2>2. CASE n # 1
    <3>1. n - 1 \in 1 .. Len(lines)
      BY <1>2, <2>2 DEF Numbers
    <3>2. lines'[n - 1] = lines[n - 1]
      BY <3>1, <1>2
    <3> QED BY <3>2, <2>2 DEF Begin
  <2> QED BY <2>1, <2>2
<1> QED BY <1>2, <1>3, <1>4 DEF Numbers

\* A step of relocate() fills in one line, and it is as long as it was.
LEMMA FilledIn ==
  ASSUME TypeOK, Coded, Filled, Relocate, Head(reltab).label \in DOMAIN symtab,
         NEW n, n = Head(reltab).line
  PROVE  LET a == symtab[Head(reltab).label]
             e == Encoded(n, lines[n].st, a)
         IN /\ n \in Numbers /\ a \in Int /\ Emits(lines[n].st)
            /\ lines[n].st.arg.label = Head(reltab).label
            /\ Len(lines') = Len(lines) /\ lines' \in Seq(LineType)
            /\ lines'[n] = [label |-> lines[n].label, st |-> lines[n].st,
                            addr |-> lines[n].addr, codes |-> e]
            /\ Len(e) = Len(lines[n].codes)
            /\ \A m \in Numbers \ {n} : lines'[m] = lines[m]
<1> DEFINE a == symtab[Head(reltab).label]
           e == Encoded(n, lines[n].st, a)
<1>1. /\ phase = "relocate" /\ reltab # <<>> /\ reltab \in Seq([line : Nat, label : Labels])
      /\ lines' = [lines EXCEPT ![n].codes = Relocated(@, lines[n].st, a)]
  BY DEF Relocate, TypeOK
<1>2. Head(reltab) = reltab[1] /\ 1 \in 1 .. Len(reltab) /\ reltab[1] \in [line : Nat, label : Labels]
  <2>1. Head(reltab) = reltab[1] /\ Len(reltab) \in Nat
    BY <1>1
  <2>2. Len(reltab) # 0
    BY <1>1
  <2>3. 1 \in 1 .. Len(reltab)
    BY <2>1, <2>2
  <2>4. reltab[1] \in [line : Nat, label : Labels]
    <3> DEFINE R == [line : Nat, label : Labels]
    <3>1. reltab \in Seq(R)
      BY <1>1
    <3> HIDE DEF R
    <3>2. reltab[1] \in R
      BY <2>3, <3>1
    <3> QED BY <3>2 DEF R
  <2> QED BY <2>1, <2>3, <2>4
<1>3. n \in Numbers /\ Emits(lines[n].st) /\ lines[n].st.arg.label = reltab[1].label
  BY <1>1, <1>2 DEF Filled
<1>4. a \in Int
  BY DEF TypeOK
<1>5. lines[n].st \in Statements /\ n \in Nat /\ lines[n] \in LineType
  BY <1>3, LineOf
<1>6. PICK v \in Int : lines[n].codes = Encoded(n, lines[n].st, v)
  BY <1>3 DEF Coded
<1>7. lines[n].st.arg.label # NoLabel
  BY <1>2, <1>3, LabelAssumption
<1>8. Relocated(lines[n].codes, lines[n].st, a) = e
  BY <1>3, <1>4, <1>5, <1>6, <1>7, RelocatedEncoded
<1>9. e \in Seq(Byte) /\ Len(e) = Len(lines[n].codes)
  BY <1>4, <1>5, <1>6, EncodedType
<1> DEFINE r == [label |-> lines[n].label, st |-> lines[n].st, addr |-> lines[n].addr, codes |-> e]
<1>10. r \in LineType
  <2> HIDE DEF e
  <2> QED BY <1>5, <1>9 DEF LineType
<1>11. [lines[n] EXCEPT !.codes = e] = r
  <2> HIDE DEF e
  <2> QED BY <1>5 DEF LineType
<1>12. lines' = [lines EXCEPT ![n] = r]
  BY <1>1, <1>8, <1>11
<1>13. /\ Len(lines') = Len(lines) /\ lines' \in Seq(LineType) /\ lines'[n] = r
       /\ \A m \in Numbers \ {n} : lines'[m] = lines[m]
  <2> HIDE DEF r
  <2>1. lines \in Seq(LineType) /\ n \in 1 .. Len(lines)
    BY <1>3 DEF TypeOK, Numbers
  <2> QED BY <2>1, <1>10, <1>12 DEF Numbers
<1> QED BY <1>2, <1>3, <1>4, <1>9, <1>13

\* The types are kept.
LEMMA TypeStep ==
  ASSUME TypeOK, Coded, Filled, [Next]_vars
  PROVE  TypeOK'
<1>1. Len(lines) \in Nat
  BY DEF TypeOK
<1>2. ASSUME NEW label \in Labels \union {NoLabel}, NEW st \in Statements, ParseLine(label, st)
      PROVE  TypeOK'
  <2>1. /\ lines' = Append(lines, Line(label, st))
        /\ UNCHANGED <<phase, written, old_vmaddr, out>>
    BY <1>2 DEF ParseLine
  <2>2. lines' \in Seq(LineType) /\ Len(lines') = Len(lines) + 1
    BY <2>1, Appended
  <2>3. vmaddr' \in Int
    <3>1. Line(label, st) \in LineType
      BY LineIsLine
    <3>2. Line(label, st).addr \in Int /\ Len(Line(label, st).codes) \in Nat
      BY <3>1 DEF LineType
    <3> QED BY <3>2, <1>2 DEF ParseLine
  <2>4. symtab' \in UNION {[D -> Int] : D \in SUBSET Labels}
    <3>1. CASE label = NoLabel
      BY <3>1, <1>2 DEF ParseLine, AddSymbol, TypeOK
    <3>2. CASE label # NoLabel
      <4>1. symtab' = [s \in DOMAIN symtab \union {label} |->
                         IF s = label THEN vmaddr ELSE symtab[s]]
        BY <3>2, <1>2 DEF ParseLine, AddSymbol
      <4>2. DOMAIN symtab \union {label} \in SUBSET Labels
        BY <3>2 DEF TypeOK
      <4>3. \A s \in DOMAIN symtab : symtab[s] \in Int
        BY DEF TypeOK
      <4>4. symtab' \in [DOMAIN symtab \union {label} -> Int]
        BY <4>1, <4>3 DEF TypeOK
      <4> QED BY <4>2, <4>4
    <3> QED BY <3>1, <3>2
  <2>5. reltab' \in Seq([line : Nat, label : Labels])
    <3>1. CASE Emits(st) /\ st.arg.label # NoLabel
      <4> DEFINE entry == [line |-> Len(lines) + 1, label |-> st.arg.label]
      <4>1. entry \in [line : Nat, label : Labels]
        BY <3>1, <1>1, StatementType
      <4>2. reltab' = Append(reltab, entry)
        BY <3>1, <1>2 DEF ParseLine
      <4> HIDE DEF entry
      <4> QED BY <4>1, <4>2 DEF TypeOK
    <3>2. CASE ~(Emits(st) /\ st.arg.label # NoLabel)
      BY <3>2, <1>2 DEF ParseLine, TypeOK
    <3> QED BY <3>1, <3>2
  <2>6. written' \in 0 .. Len(lines')
    BY <2>1, <2>2, <1>1 DEF TypeOK
  <2> QED BY <2>1, <2>2, <2>3, <2>4, <2>5, <2>6 DEF TypeOK
<1>3. ASSUME NEW label \in Labels \union {NoLabel}, NEW st \in Statements, RejectLine(label, st)
      PROVE  TypeOK'
  <2>1. /\ lines' = Append(lines, Line(label, st)) /\ phase' = "failed"
        /\ UNCHANGED <<vmaddr, symtab, reltab, written, old_vmaddr, out>>
    BY <1>3 DEF RejectLine
  <2>2. lines' \in Seq(LineType) /\ Len(lines') = Len(lines) + 1
    BY <2>1, Appended
  <2>3. written' \in 0 .. Len(lines')
    BY <2>1, <2>2, <1>1 DEF TypeOK
  <2> QED BY <2>1, <2>2, <2>3 DEF TypeOK
<1>4. CASE EndOfFile
  BY <1>4 DEF EndOfFile, TypeOK
<1>5. CASE Relocate
  <2>1. /\ reltab # <<>> /\ reltab' = Tail(reltab)
        /\ phase' \in {phase, "failed"}
        /\ UNCHANGED <<vmaddr, symtab, written, old_vmaddr, out>>
    BY <1>5 DEF Relocate
  <2>2. reltab' \in Seq([line : Nat, label : Labels])
    BY <2>1 DEF TypeOK
  <2>3. lines' \in Seq(LineType) /\ Len(lines') = Len(lines)
    <3>1. CASE Head(reltab).label \in DOMAIN symtab
      BY <3>1, <1>5, FilledIn
    <3>2. CASE Head(reltab).label \notin DOMAIN symtab
      BY <3>2, <1>5 DEF Relocate, TypeOK
    <3> QED BY <3>1, <3>2
  <2> QED BY <2>1, <2>2, <2>3 DEF TypeOK
<1>6. CASE OpenFile
  BY <1>6 DEF OpenFile, TypeOK
<1>7. CASE WriteLine
  <2> DEFINE line == lines[written + 1]
  <2>1. /\ written < Len(lines) /\ written' = written + 1
        /\ UNCHANGED <<phase, vmaddr, symtab, reltab, lines>>
    BY <1>7 DEF WriteLine
  <2>2. written' \in 0 .. Len(lines')
    BY <2>1, <1>1 DEF TypeOK
  <2>3. written + 1 \in Numbers
    BY <2>1, <1>1 DEF TypeOK, Numbers
  <2>4. line.codes \in Seq(Byte) /\ line.addr \in Int /\ Len(line.codes) \in Nat
    BY <2>3, LineOf
  <2>5. CASE line.codes = <<>>
    <3>1. UNCHANGED <<out, old_vmaddr>>
      BY <2>5, <1>7 DEF WriteLine
    <3> QED BY <2>1, <2>2, <3>1 DEF TypeOK
  <2>6. CASE line.codes # <<>>
    <3>1. /\ out' = out \o Zeros(line.addr - old_vmaddr) \o line.codes
          /\ old_vmaddr' = line.addr + Len(line.codes)
      BY <2>6, <1>7 DEF WriteLine
    <3>2. old_vmaddr' \in Int
      BY <3>1, <2>4
    <3>3. Zeros(line.addr - old_vmaddr) \in Seq(Byte)
      <4>1. line.addr - old_vmaddr \in Int
        BY <2>4 DEF TypeOK
      <4> QED BY <4>1, ZerosType
    <3>4. out' \in Seq(Byte)
      BY <3>1, <3>3, <2>4 DEF TypeOK
    <3> QED BY <2>1, <2>2, <3>2, <3>4 DEF TypeOK
  <2> QED BY <2>5, <2>6
<1>8. CASE CloseFile
  BY <1>8 DEF CloseFile, TypeOK
<1>9. CASE UNCHANGED vars
  BY <1>9 DEF vars, TypeOK
<1> QED BY <1>2, <1>3, <1>4, <1>5, <1>6, <1>7, <1>8, <1>9 DEF Next

-----------------------------------------------------------------------------
(* The lines and their addresses.                                           *)

\* relocate() moves nothing.
LEMMA NothingMoved ==
  ASSUME TypeOK, Coded, Filled, Relocate
  PROVE  /\ Numbers' = Numbers /\ Len(lines') = Len(lines)
         /\ \A n \in Numbers :
              /\ lines'[n].label = lines[n].label /\ lines'[n].st = lines[n].st
              /\ lines'[n].addr = lines[n].addr
              /\ Len(lines'[n].codes) = Len(lines[n].codes)
         /\ \A n \in 1 .. Len(lines) + 1 : Begin(n)' = Begin(n)
<1>1. /\ Len(lines') = Len(lines)
      /\ \A n \in Numbers :
           /\ lines'[n].label = lines[n].label /\ lines'[n].st = lines[n].st
           /\ lines'[n].addr = lines[n].addr
           /\ Len(lines'[n].codes) = Len(lines[n].codes)
  <2>1. CASE Head(reltab).label \in DOMAIN symtab
    <3> DEFINE n == Head(reltab).line
               a == symtab[Head(reltab).label]
               e == Encoded(n, lines[n].st, a)
    <3>1. /\ n \in Numbers /\ Len(lines') = Len(lines) /\ Len(e) = Len(lines[n].codes)
          /\ lines'[n] = [label |-> lines[n].label, st |-> lines[n].st,
                          addr |-> lines[n].addr, codes |-> e]
          /\ \A m \in Numbers \ {n} : lines'[m] = lines[m]
      BY <2>1, FilledIn
    <3> HIDE DEF n, e
    <3> QED BY <3>1
  <2>2. CASE Head(reltab).label \notin DOMAIN symtab
    BY <2>2 DEF Relocate
  <2> QED BY <2>1, <2>2
<1>2. ASSUME NEW n \in 1 .. Len(lines) + 1 PROVE Begin(n)' = Begin(n)
  <2>1. CASE n = 1
    BY <2>1 DEF Begin
  <2>2. CASE n # 1
    <3>1. n - 1 \in Numbers
      BY <2>2 DEF TypeOK, Numbers
    <3> QED BY <2>2, <3>1, <1>1 DEF Begin
  <2> QED BY <2>1, <2>2
<1> QED BY <1>1, <1>2 DEF Numbers

\* The steps that leave the lines alone.
LEMMA LinesAlone ==
  ASSUME EndOfFile \/ OpenFile \/ WriteLine \/ CloseFile \/ UNCHANGED vars
  PROVE  /\ UNCHANGED <<vmaddr, symtab, reltab, lines>>
         /\ phase' = "assemble" => phase = "assemble"
         /\ phase' = "failed" => phase = "failed"
BY DEF EndOfFile, OpenFile, WriteLine, CloseFile, vars

LEMMA LaidStep ==
  ASSUME TypeOK, Coded, Filled, Laid, [Next]_vars
  PROVE  Laid'
<1>1. ASSUME NEW label \in Labels \union {NoLabel}, NEW st \in Statements,
             phase = "assemble", lines' = Append(lines, Line(label, st))
      PROVE  \A n \in Numbers' :
               lines'[n].addr = IF Places(lines'[n].st)
                                THEN Placed(lines'[n].st, Begin(n)') ELSE Begin(n)'
  <2> SUFFICES ASSUME NEW n \in Numbers'
               PROVE  lines'[n].addr = IF Places(lines'[n].st)
                                       THEN Placed(lines'[n].st, Begin(n)') ELSE Begin(n)'
    OBVIOUS
  <2>1. Begin(n)' = Begin(n)
    BY <1>1, Appended
  <2>2. CASE n \in Numbers
    <3>1. lines'[n] = lines[n]
      BY <2>2, <1>1, Appended
    <3> QED BY <2>1, <2>2, <3>1 DEF Laid
  <2>3. CASE n \notin Numbers
    <3>1. n = Len(lines) + 1 /\ lines'[n] = Line(label, st)
      BY <2>3, <1>1, Appended
    <3>2. vmaddr = Begin(n)
      BY <3>1, <1>1 DEF Laid
    <3> QED BY <2>1, <3>1, <3>2 DEF Line
  <2> QED BY <2>2, <2>3
<1>2. ASSUME NEW label \in Labels \union {NoLabel}, NEW st \in Statements, ParseLine(label, st)
      PROVE  Laid'
  <2>1. /\ phase = "assemble" /\ lines' = Append(lines, Line(label, st))
        /\ vmaddr' = Line(label, st).addr + Len(Line(label, st).codes)
    BY <1>2 DEF ParseLine
  <2>2. Len(lines') = Len(lines) + 1 /\ Len(lines) \in Nat /\ lines'[Len(lines')] = Line(label, st)
    BY <2>1, Appended
  <2>3. Len(lines') + 1 # 1 /\ Len(lines') + 1 - 1 = Len(lines')
    BY <2>2
  <2>4. vmaddr' = Begin(Len(lines) + 1)'
    BY <2>1, <2>2, <2>3 DEF Begin
  <2> QED BY <1>1, <2>1, <2>4 DEF Laid
<1>3. ASSUME NEW label \in Labels \union {NoLabel}, NEW st \in Statements, RejectLine(label, st)
      PROVE  Laid'
  BY <1>1, <1>3 DEF RejectLine, Laid
<1>4. CASE Relocate
  <2>1. phase' # "assemble"
    BY <1>4 DEF Relocate
  <2>2. Numbers' = Numbers /\ Numbers \subseteq 1 .. Len(lines) + 1
    BY <1>4, NothingMoved DEF TypeOK, Numbers
  <2> QED BY <1>4, <2>1, <2>2, NothingMoved DEF Laid
<1>5. CASE EndOfFile \/ OpenFile \/ WriteLine \/ CloseFile \/ UNCHANGED vars
  BY <1>5, LinesAlone DEF Laid, Begin, Numbers
<1> QED BY <1>2, <1>3, <1>4, <1>5 DEF Next

LEMMA CodedStep ==
  ASSUME TypeOK, Coded, Filled, [Next]_vars
  PROVE  Coded'
<1>1. ASSUME NEW label \in Labels \union {NoLabel}, NEW st \in Statements,
             lines' = Append(lines, Line(label, st))
      PROVE  Coded'
  <2> SUFFICES ASSUME NEW n \in Numbers'
               PROVE  /\ Emits(lines'[n].st) =>
                           \E v \in Int : lines'[n].codes = Encoded(n, lines'[n].st, v)
                      /\ ~Emits(lines'[n].st) => lines'[n].codes = <<>>
    BY DEF Coded
  <2>1. CASE n \in Numbers
    BY <2>1, <1>1, Appended DEF Coded
  <2>2. CASE n \notin Numbers
    <3>1. n = Len(lines) + 1 /\ lines'[n] = Line(label, st)
      BY <2>2, <1>1, Appended
    <3>2. st.arg.value \in Int
      BY StatementType
    <3> QED BY <3>1, <3>2, LineIsLine
  <2> QED BY <2>1, <2>2
<1>2. ASSUME NEW label \in Labels \union {NoLabel}, NEW st \in Statements,
             ParseLine(label, st) \/ RejectLine(label, st)
      PROVE  Coded'
  BY <1>1, <1>2 DEF ParseLine, RejectLine
<1>3. CASE Relocate
  <2>1. CASE Head(reltab).label \in DOMAIN symtab
    <3> DEFINE n == Head(reltab).line
               a == symtab[Head(reltab).label]
    <3>1. /\ n \in Numbers /\ a \in Int /\ Emits(lines[n].st)
          /\ lines'[n] = [label |-> lines[n].label, st |-> lines[n].st,
                          addr |-> lines[n].addr, codes |-> Encoded(n, lines[n].st, a)]
          /\ \A m \in Numbers \ {n} : lines'[m] = lines[m]
      BY <1>3, <2>1, FilledIn
    <3>2. Numbers' = Numbers
      BY <1>3, NothingMoved
    <3> HIDE DEF n, a
    <3> QED BY <3>1, <3>2 DEF Coded
  <2>2. CASE Head(reltab).label \notin DOMAIN symtab
    BY <1>3, <2>2 DEF Relocate, Coded, Numbers
  <2> QED BY <2>1, <2>2
<1>4. CASE EndOfFile \/ OpenFile \/ WriteLine \/ CloseFile \/ UNCHANGED vars
  BY <1>4, LinesAlone DEF Coded, Numbers
<1> QED BY <1>2, <1>3, <1>4 DEF Next

-----------------------------------------------------------------------------
(* The labels.                                                              *)

\* What parse_line() adds to the table of labels.
LEMMA Symbols ==
  ASSUME TypeOK, NEW label \in Labels \union {NoLabel}, NEW st \in Statements,
         ParseLine(label, st)
  PROVE  /\ label \notin DOMAIN symtab
         /\ DOMAIN symtab' = DOMAIN symtab \union ({label} \ {NoLabel})
         /\ \A s \in DOMAIN symtab : symtab'[s] = symtab[s]
         /\ label # NoLabel => symtab'[label] = vmaddr
<1>1. label \notin DOMAIN symtab
  BY DEF ParseLine, Accepted, Duplicate
<1>2. CASE label = NoLabel
  BY <1>1, <1>2 DEF ParseLine, AddSymbol
<1>3. CASE label # NoLabel
  <2>1. symtab' = [s \in DOMAIN symtab \union {label} |-> IF s = label THEN vmaddr ELSE symtab[s]]
    BY <1>3 DEF ParseLine, AddSymbol
  <2> QED BY <1>1, <1>3, <2>1
<1> QED BY <1>2, <1>3

LEMMA NamedStep ==
  ASSUME TypeOK, Coded, Filled, Laid, Named, [Next]_vars
  PROVE  Named'
<1>1. ASSUME NEW label \in Labels \union {NoLabel}, NEW st \in Statements, ParseLine(label, st)
      PROVE  Named'
  <2> DEFINE k == Len(lines) + 1
  <2>1. /\ phase = "assemble" /\ phase' = phase /\ Accepted(label, st)
        /\ lines' = Append(lines, Line(label, st))
    BY <1>1 DEF ParseLine
  <2>2. /\ k \notin Numbers /\ Numbers' = Numbers \union {k}
        /\ lines'[k] = Line(label, st)
        /\ \A n \in Numbers : lines'[n] = lines[n]
        /\ \A n \in Numbers' : Begin(n)' = Begin(n)
    BY <2>1, Appended DEF Numbers
  <2>3. lines'[k].label = label /\ lines'[k].st = st
    <3>1. Line(label, st).label = label /\ Line(label, st).st = st
      BY LineIsLine
    <3> QED BY <2>2, <3>1
  <2>4. vmaddr = Begin(k)
    BY <2>1 DEF Laid
  <2>5. /\ \A n \in Numbers : ~NotUnderstood(n)
        /\ \A n \in Numbers : lines[n].label # NoLabel =>
             lines[n].label \in DOMAIN symtab /\ symtab[lines[n].label] = Begin(n)
        /\ \A m, n \in Numbers :
             lines[m].label = lines[n].label /\ lines[m].label # NoLabel => m = n
        /\ \A s \in DOMAIN symtab : \E n \in Numbers : lines[n].label = s
    BY <2>1 DEF Named
  <2> HIDE DEF k
  <2>6. \A n \in Numbers' : ~NotUnderstood(n)'
    <3> SUFFICES ASSUME NEW n \in Numbers' PROVE ~NotUnderstood(n)'
      OBVIOUS
    <3>1. CASE n \in Numbers
      BY <3>1, <2>2, <2>5 DEF NotUnderstood
    <3>2. CASE n = k
      BY <3>2, <2>1, <2>3 DEF NotUnderstood, Accepted
    <3> QED BY <3>1, <3>2, <2>2
  <2>7. \A n \in Numbers' : lines'[n].label # NoLabel =>
          lines'[n].label \in DOMAIN symtab' /\ symtab'[lines'[n].label] = Begin(n)'
    <3> SUFFICES ASSUME NEW n \in Numbers', lines'[n].label # NoLabel
                 PROVE  lines'[n].label \in DOMAIN symtab' /\ symtab'[lines'[n].label] = Begin(n)'
      OBVIOUS
    <3>1. CASE n \in Numbers
      <4>1. /\ lines'[n] = lines[n] /\ Begin(n)' = Begin(n)
            /\ lines[n].label \in DOMAIN symtab /\ symtab[lines[n].label] = Begin(n)
        BY <3>1, <2>2, <2>5
      <4>2. \A s \in DOMAIN symtab : s \in DOMAIN symtab' /\ symtab'[s] = symtab[s]
        BY <1>1, Symbols
      <4> QED BY <4>1, <4>2
    <3>2. CASE n = k
      BY <3>2, <1>1, <2>2, <2>3, <2>4, Symbols
    <3> QED BY <3>1, <3>2, <2>2
  <2>8. \A m, n \in Numbers' :
          lines'[m].label = lines'[n].label /\ lines'[m].label # NoLabel => m = n
    <3>1. \A m \in Numbers : lines'[m].label # label \/ label = NoLabel
      BY <1>1, <2>2, <2>5, Symbols
    <3> QED BY <2>2, <2>3, <2>5, <3>1
  <2>9. \A s \in DOMAIN symtab' : \E n \in Numbers' : lines'[n].label = s
    <3> SUFFICES ASSUME NEW s \in DOMAIN symtab' PROVE \E n \in Numbers' : lines'[n].label = s
      OBVIOUS
    <3>1. CASE s \in DOMAIN symtab
      BY <3>1, <2>2, <2>5
    <3>2. CASE s \notin DOMAIN symtab
      BY <3>2, <1>1, <2>2, <2>3, Symbols
    <3> QED BY <3>1, <3>2
  <2> QED BY <2>6, <2>7, <2>8, <2>9 DEF Named
<1>2. ASSUME NEW label \in Labels \union {NoLabel}, NEW st \in Statements, RejectLine(label, st)
      PROVE  Named'
  BY <1>2 DEF RejectLine, Named
<1>3. CASE Relocate
  <2>1. symtab' = symtab /\ phase = "relocate"
    BY <1>3 DEF Relocate
  <2>2. Numbers' = Numbers /\ Numbers \subseteq 1 .. Len(lines) + 1
    BY <1>3, NothingMoved DEF TypeOK, Numbers
  <2>3. \A n \in Numbers : /\ lines'[n].label = lines[n].label /\ lines'[n].st = lines[n].st
                           /\ Begin(n)' = Begin(n)
    BY <1>3, <2>2, NothingMoved
  <2> QED BY <2>1, <2>2, <2>3 DEF Named, NotUnderstood
<1>4. CASE EndOfFile \/ OpenFile \/ WriteLine \/ CloseFile \/ UNCHANGED vars
  <2>1. /\ UNCHANGED <<symtab, lines>>
        /\ phase' # "failed" => phase # "failed"
    BY <1>4, LinesAlone DEF EndOfFile, OpenFile, WriteLine, CloseFile, vars
  <2> QED BY <2>1 DEF Named, Numbers, Begin, NotUnderstood
<1> QED BY <1>1, <1>2, <1>3, <1>4 DEF Next

-----------------------------------------------------------------------------
(* The operands, and what is refused.                                       *)

\* The value of line n's operand, as far as it is known.
LEMMA FilledStep ==
  ASSUME TypeOK, Coded, Filled, Laid, Named, [Next]_vars
  PROVE  Filled'
<1> DEFINE Entry(r) == /\ r.line \in Numbers
                       /\ Emits(lines[r.line].st)
                       /\ lines[r.line].st.arg.label = r.label
           Operand(n) == Emits(lines[n].st) =>
             LET arg == lines[n].st.arg
             IN IF arg.label = NoLabel
                THEN lines[n].codes = Encoded(n, lines[n].st, arg.value)
                ELSE \/ Pending(n)
                     \/ /\ arg.label \in DOMAIN symtab
                        /\ lines[n].codes = Encoded(n, lines[n].st, symtab[arg.label])
<1>1. ASSUME NEW label \in Labels \union {NoLabel}, NEW st \in Statements, ParseLine(label, st)
      PROVE  Filled'
  <2> DEFINE k == Len(lines) + 1
             entry == [line |-> k, label |-> st.arg.label]
             uses == Emits(st) /\ st.arg.label # NoLabel
  <2>1. /\ phase = "assemble" /\ phase' = phase
        /\ lines' = Append(lines, Line(label, st))
        /\ reltab' = IF uses THEN Append(reltab, entry) ELSE reltab
    BY <1>1 DEF ParseLine
  <2>2. /\ k \notin Numbers /\ Numbers' = Numbers \union {k}
        /\ lines'[k] = Line(label, st)
        /\ \A n \in Numbers : lines'[n] = lines[n]
    BY <2>1, Appended DEF Numbers
  <2>3. lines'[k].st = st /\ (Emits(st) => lines'[k].codes = Encoded(k, st, st.arg.value))
    <3>1. /\ Line(label, st).st = st
          /\ Emits(st) => Line(label, st).codes = Encoded(k, st, st.arg.value)
      BY LineIsLine
    <3> QED BY <2>2, <3>1
  <2>4. \A s \in DOMAIN symtab : s \in DOMAIN symtab' /\ symtab'[s] = symtab[s]
    BY <1>1, Symbols
  <2>5. /\ \A i \in 1 .. Len(reltab) : Entry(reltab[i])
        /\ \A n \in Numbers : Operand(n)
    BY <2>1 DEF Filled
  <2>6. /\ Len(reltab) \in Nat
        /\ \A i \in 1 .. Len(reltab) : i \in 1 .. Len(reltab') /\ reltab'[i] = reltab[i]
        /\ \A i \in 1 .. Len(reltab') : i \notin 1 .. Len(reltab) => uses /\ reltab'[i] = entry
        /\ uses => \E i \in 1 .. Len(reltab') : reltab'[i] = entry
    <3> HIDE DEF entry
    <3>1. reltab \in Seq([line : Nat, label : Labels])
      BY DEF TypeOK
    <3> HIDE DEF uses
    <3>2. CASE uses
      <4> DEFINE j == Len(reltab) + 1
      <4>1. reltab' = Append(reltab, entry)
        BY <2>1, <3>2
      <4>2. Len(reltab') = j /\ reltab'[j] = entry /\ j \in 1 .. Len(reltab') /\ Len(reltab) \in Nat
        BY <3>1, <4>1
      <4>3. \A i \in 1 .. Len(reltab) : reltab'[i] = reltab[i]
        BY <3>1, <4>1
      <4> QED BY <3>2, <4>2, <4>3
    <3>3. CASE ~uses
      BY <2>1, <3>1, <3>3
    <3> QED BY <3>2, <3>3
  <2>7. entry.line = k /\ entry.label = st.arg.label
    OBVIOUS
  <2> HIDE DEF k, entry
  <2>8. \A i \in 1 .. Len(reltab') : Entry(reltab[i])'
    <3> SUFFICES ASSUME NEW i \in 1 .. Len(reltab') PROVE Entry(reltab[i])'
      OBVIOUS
    <3>1. CASE i \in 1 .. Len(reltab)
      BY <3>1, <2>2, <2>5, <2>6
    <3>2. CASE i \notin 1 .. Len(reltab)
      BY <3>2, <2>2, <2>3, <2>6, <2>7
    <3> QED BY <3>1, <3>2
  <2>9. \A n \in Numbers' : Operand(n)'
    <3> SUFFICES ASSUME NEW n \in Numbers' PROVE Operand(n)'
      OBVIOUS
    <3>1. CASE n \in Numbers
      <4>1. Pending(n) => Pending(n)'
        BY <2>6 DEF Pending
      <4> QED BY <3>1, <2>2, <2>4, <2>5, <4>1
    <3>2. CASE n = k
      <4>1. uses => Pending(n)'
        BY <3>2, <2>6, <2>7 DEF Pending
      <4> QED BY <3>2, <2>3, <4>1
    <3> QED BY <3>1, <3>2, <2>2
  <2> QED BY <2>1, <2>8, <2>9 DEF Filled
<1>2. ASSUME NEW label \in Labels \union {NoLabel}, NEW st \in Statements, RejectLine(label, st)
      PROVE  Filled'
  BY <1>2 DEF RejectLine, Filled
<1>3. CASE Relocate
  <2>1. CASE Head(reltab).label \in DOMAIN symtab
    <3> DEFINE n == Head(reltab).line
               a == symtab[Head(reltab).label]
               e == Encoded(n, lines[n].st, a)
    <3>1. /\ n \in Numbers
          /\ lines[n].st.arg.label = Head(reltab).label
          /\ lines'[n] = [label |-> lines[n].label, st |-> lines[n].st,
                          addr |-> lines[n].addr, codes |-> e]
          /\ \A m \in Numbers \ {n} : lines'[m] = lines[m]
      BY <1>3, <2>1, FilledIn
    <3>2. /\ phase = "relocate" /\ phase' = "relocate"
          /\ symtab' = symtab /\ reltab # <<>> /\ reltab' = Tail(reltab)
      BY <1>3, <2>1 DEF Relocate
    <3>3. /\ \A m \in Numbers : lines'[m].st = lines[m].st
          /\ Numbers' = Numbers
      BY <1>3, NothingMoved
    <3>4. /\ \A i \in 1 .. Len(reltab) : Entry(reltab[i])
          /\ \A m \in Numbers : Operand(m)
      BY <3>2 DEF Filled
    <3>5. /\ \A i \in 1 .. Len(reltab') : i + 1 \in 1 .. Len(reltab) /\ reltab'[i] = reltab[i + 1]
          /\ \A i \in 1 .. Len(reltab) :
               i # 1 => i - 1 \in 1 .. Len(reltab') /\ reltab'[i - 1] = reltab[i]
          /\ reltab[1].line = n
      <4>1. reltab \in Seq([line : Nat, label : Labels])
        BY DEF TypeOK
      <4>2. Len(reltab) \in Nat /\ Len(reltab') = Len(reltab) - 1 /\ Head(reltab) = reltab[1]
        BY <3>2, <4>1
      <4>3. \A i \in 1 .. Len(reltab') : reltab'[i] = reltab[i + 1]
        BY <3>2, <4>1, <4>2
      <4> QED BY <4>2, <4>3
    <3>6. \A i \in 1 .. Len(reltab') : Entry(reltab[i])'
      BY <3>3, <3>4, <3>5
    <3>7. \A m \in Numbers' : Operand(m)'
      <4> SUFFICES ASSUME NEW m \in Numbers PROVE Operand(m)'
        BY <3>3
      <4>1. CASE m = n
        <5> HIDE DEF n
        <5>1. lines'[m].codes = Encoded(m, lines[m].st, a) /\ lines'[m].st = lines[m].st
          BY <3>1, <4>1
        <5>2. lines[m].st.arg.label \in DOMAIN symtab /\ a = symtab[lines[m].st.arg.label]
          BY <2>1, <3>1, <4>1
        <5>3. lines[m].st.arg.label # NoLabel
          BY <5>2, LabelAssumption DEF TypeOK
        <5> QED BY <3>2, <5>1, <5>2, <5>3
      <4>2. CASE m # n
        <5>1. Pending(m) => Pending(m)'
          <6> SUFFICES ASSUME NEW i \in 1 .. Len(reltab), reltab[i].line = m PROVE Pending(m)'
            BY DEF Pending
          <6>1. i # 1
            BY <3>5, <4>2
          <6> QED BY <3>5, <6>1 DEF Pending
        <5> QED BY <3>1, <3>2, <3>4, <4>2, <5>1
      <4> QED BY <4>1, <4>2
    <3> QED BY <3>2, <3>6, <3>7 DEF Filled
  <2>2. CASE Head(reltab).label \notin DOMAIN symtab
    BY <1>3, <2>2 DEF Relocate, Filled
  <2> QED BY <2>1, <2>2
<1>4. CASE EndOfFile \/ OpenFile \/ WriteLine \/ CloseFile \/ UNCHANGED vars
  <2>1. /\ UNCHANGED <<symtab, reltab, lines>>
        /\ phase' # "failed" => phase # "failed"
        /\ phase' \in {"binfile", "done"} => phase \in {"binfile", "done"} \/ reltab = <<>>
    BY <1>4, LinesAlone DEF EndOfFile, OpenFile, WriteLine, CloseFile, vars
  <2> QED BY <2>1 DEF Filled, Pending, Numbers
<1> QED BY <1>1, <1>2, <1>3, <1>4 DEF Next

\* A line that is not accepted, and a label that is not found, make a program wrong.
LEMMA RefusedStep ==
  ASSUME TypeOK, Coded, Filled, Laid, Named, Refused, [Next]_vars
  PROVE  Refused'
<1>1. ASSUME NEW label \in Labels \union {NoLabel}, NEW st \in Statements, RejectLine(label, st)
      PROVE  Wrong'
  <2>0. PICK k \in Nat : k = Len(lines) + 1
    BY DEF TypeOK
  <2>1. /\ phase = "assemble" /\ ~Accepted(label, st)
        /\ lines' = Append(lines, Line(label, st))
    BY <1>1 DEF RejectLine
  <2>2. /\ k \notin Numbers /\ Numbers' = Numbers \union {k}
        /\ lines'[k] = Line(label, st)
        /\ \A n \in Numbers : lines'[n] = lines[n]
    BY <2>0, <2>1, Appended DEF Numbers
  <2>3. lines'[k].label = label /\ lines'[k].st = st
    <3>1. Line(label, st).label = label /\ Line(label, st).st = st
      BY LineIsLine
    <3> QED BY <2>2, <3>1
  <2>4. CASE Duplicate(label)
    <3>1. PICK n \in Numbers : lines[n].label = label
      BY <2>1, <2>4 DEF Duplicate, Named
    <3>2. label \in Labels
      BY <2>4 DEF Duplicate, TypeOK
    <3>3. Twice(label)'
      BY <2>2, <2>3, <3>1 DEF Twice
    <3> QED BY <3>2, <3>3 DEF Wrong
  <2>5. CASE ~Duplicate(label)
    <3>1. NotUnderstood(k)'
      BY <2>1, <2>3, <2>5 DEF Accepted, NotUnderstood
    <3> QED BY <2>2, <3>1 DEF Wrong
  <2> QED BY <2>4, <2>5
<1>2. ASSUME Relocate, Head(reltab).label \notin DOMAIN symtab
      PROVE  Wrong'
  <2> DEFINE n == reltab[1].line
  <2>1. /\ phase = "relocate" /\ reltab # <<>> /\ lines' = lines
    BY <1>2 DEF Relocate
  <2>2. /\ 1 \in 1 .. Len(reltab) /\ Head(reltab) = reltab[1]
        /\ reltab[1].label \in Labels
    <3> DEFINE R == [line : Nat, label : Labels]
    <3>1. reltab \in Seq(R)
      BY DEF TypeOK
    <3>2. 1 \in 1 .. Len(reltab) /\ Head(reltab) = reltab[1] /\ reltab[1] \in R
      <4> HIDE DEF R
      <4>1. Len(reltab) \in Nat /\ Len(reltab) # 0 /\ Head(reltab) = reltab[1]
        BY <2>1, <3>1
      <4>2. 1 \in 1 .. Len(reltab)
        BY <4>1
      <4> QED BY <3>1, <4>1, <4>2
    <3> QED BY <3>2
  <2>3. n \in Numbers /\ Emits(lines[n].st) /\ lines[n].st.arg.label = reltab[1].label
    BY <2>1, <2>2 DEF Filled
  <2>4. lines[n].st \in Statements
    BY <2>3, LineOf
  <2>5. Bytes(n) > 0 /\ lines[n].st.arg.label # NoLabel
    BY <2>2, <2>3, <2>4, StatementType, LabelAssumption DEF Bytes
  <2>6. \A m \in Numbers : lines[m].label # lines[n].st.arg.label
    BY <1>2, <2>1, <2>2, <2>3, <2>5 DEF Named
  <2>7. Undefined(n)
    BY <2>5, <2>6 DEF Undefined
  <2>8. \A m : Undefined(m)' <=> Undefined(m)
    BY <2>1 DEF Undefined, Bytes, Numbers
  <2>9. Numbers' = Numbers
    BY <2>1 DEF Numbers
  <2> HIDE DEF n
  <2> QED BY <2>3, <2>7, <2>8, <2>9 DEF Wrong
<1>3. CASE EndOfFile \/ OpenFile \/ WriteLine \/ CloseFile \/ UNCHANGED vars
  BY <1>3, LinesAlone DEF Refused, Wrong, Twice, Undefined, NotUnderstood, Bytes, Numbers
<1>4. ASSUME NEW label \in Labels \union {NoLabel}, NEW st \in Statements, ParseLine(label, st)
      PROVE  Refused'
  BY <1>4 DEF ParseLine, Refused
<1>5. ASSUME Relocate, Head(reltab).label \in DOMAIN symtab
      PROVE  Refused'
  BY <1>5 DEF Relocate, Refused
<1> QED BY <1>1, <1>2, <1>3, <1>4, <1>5 DEF Next, Refused

-----------------------------------------------------------------------------
(* The file.                                                                *)

\* A line has bytes if its statement does.
LEMMA BytesOf ==
  ASSUME TypeOK, Coded, NEW n \in Numbers
  PROVE  /\ Bytes(n) \in Nat /\ Len(lines[n].codes) = Bytes(n)
         /\ Bytes(n) > 0 <=> Emits(lines[n].st)
         /\ Bytes(n) > 0 <=> lines[n].codes # <<>>
<1>1. lines[n].st \in Statements /\ lines[n].codes \in Seq(Byte) /\ n \in Nat
  BY LineOf
<1>2. CASE Emits(lines[n].st)
  <2>1. PICK v \in Int : lines[n].codes = Encoded(n, lines[n].st, v)
    BY <1>2 DEF Coded
  <2>2. /\ Len(lines[n].codes) = lines[n].st.bytes
        /\ lines[n].st.bytes \in Nat /\ lines[n].st.bytes > 0
    <3>1. /\ lines[n].st.bytes \in Nat /\ lines[n].st.bytes > 0
      BY <1>1, <1>2, StatementType
    <3>2. Len(Encoded(n, lines[n].st, v)) = lines[n].st.bytes
      BY <1>1, EncodedType
    <3> QED BY <2>1, <3>1, <3>2
  <2>3. lines[n].codes # <<>>
    BY <2>2
  <2> QED BY <1>2, <2>2, <2>3 DEF Bytes
<1>3. CASE ~Emits(lines[n].st)
  BY <1>3 DEF Bytes, Coded
<1> QED BY <1>2, <1>3

\* A line with bytes begins where its address says.
LEMMA AddrOf ==
  ASSUME TypeOK, Coded, Laid, NEW n \in Numbers, Bytes(n) > 0
  PROVE  lines[n].addr = Begin(n)
<1>1. Emits(lines[n].st)
  BY BytesOf
<1>2. ~Places(lines[n].st)
  BY <1>1 DEF Emits, Places
<1> QED BY <1>2 DEF Laid

\* What a concatenation is.
LEMMA Concatenated ==
  ASSUME NEW s \in Seq(Byte), NEW t \in Seq(Byte)
  PROVE  /\ s \o t \in Seq(Byte) /\ Len(s \o t) = Len(s) + Len(t)
         /\ Len(s) \in Nat /\ Len(t) \in Nat
         /\ \A x \in 1 .. Len(s) : (s \o t)[x] = s[x]
         /\ \A x \in 1 .. Len(t) : (s \o t)[Len(s) + x] = t[x]
OBVIOUS

\* A line is written behind the lines before it.
LEMMA WriteStep ==
  ASSUME TypeOK, Coded, Laid, WriteLine, Ordered, FileSoFar
  PROVE  FileSoFar'
<1> DEFINE line == lines[written + 1]
<1>0. PICK n \in Nat : n = written + 1
  BY DEF TypeOK
<1>1. /\ written < Len(lines) /\ written' = n /\ lines' = lines
      /\ written \in Nat /\ Len(lines) \in Nat /\ old_vmaddr \in Int /\ out \in Seq(Byte)
  BY <1>0 DEF WriteLine, TypeOK
<1>2. n \in Numbers /\ Numbers' = Numbers /\ 1 .. written' = (1 .. written) \union {n}
      /\ 1 .. written \subseteq Numbers /\ \A m \in 1 .. written : m < n
  BY <1>0, <1>1 DEF Numbers
<1>3. \A m : Begin(m)' = Begin(m) /\ Bytes(m)' = Bytes(m)
  BY <1>1 DEF Begin, Bytes
<1>4. \A m \in Numbers : Begin(m) \in Int /\ Bytes(m) \in Nat
  <2> SUFFICES ASSUME NEW m \in Numbers PROVE Begin(m) \in Int /\ Bytes(m) \in Nat
    OBVIOUS
  <2>1. m \in 1 .. Len(lines) + 1
    BY <1>1 DEF Numbers
  <2> QED BY <2>1, BeginType, BytesOf
<1>5. CASE Bytes(n) = 0
  <2>1. line.codes = <<>>
    BY <1>0, <1>2, <1>5, BytesOf
  <2>2. out' = out /\ old_vmaddr' = old_vmaddr
    BY <2>1 DEF WriteLine
  <2>3. \A m : Bytes(m) > 0 => (m \in 1 .. written' <=> m \in 1 .. written)
    BY <1>2, <1>5
  <2>4. \A m : (m \in 1 .. written' /\ Bytes(m)' > 0) <=> (m \in 1 .. written /\ Bytes(m) > 0)
    BY <1>3, <2>3
  <2> HIDE DEF line
  <2>5. /\ Len(out') = old_vmaddr'
        /\ \/ old_vmaddr' = 0
           \/ \E m \in 1 .. written' : Bytes(m)' > 0 /\ old_vmaddr' = Begin(m)' + Bytes(m)'
    BY <1>3, <2>2, <2>4 DEF FileSoFar
  <2>6. \A m \in 1 .. written' : Bytes(m)' > 0 =>
          /\ Begin(m)' + Bytes(m)' <= old_vmaddr'
          /\ \A x \in 1 .. Bytes(m)' : out'[Begin(m)' + x] = lines'[m].codes[x]
    <3> SUFFICES ASSUME NEW m \in 1 .. written', Bytes(m)' > 0
                 PROVE  /\ Begin(m)' + Bytes(m)' <= old_vmaddr'
                        /\ \A x \in 1 .. Bytes(m)' : out'[Begin(m)' + x] = lines'[m].codes[x]
      OBVIOUS
    <3>1. m \in 1 .. written /\ Bytes(m) > 0
      BY <2>4
    <3> QED BY <1>1, <1>3, <2>2, <3>1 DEF FileSoFar
  <2>7. \A a \in 1 .. Len(out') :
          \/ out'[a] = Zero
          \/ \E m \in 1 .. written' :
               Bytes(m)' > 0 /\ a \in Begin(m)' + 1 .. Begin(m)' + Bytes(m)'
    <3> SUFFICES ASSUME NEW a \in 1 .. Len(out'), out'[a] # Zero
                 PROVE  \E m \in 1 .. written' :
                          Bytes(m)' > 0 /\ a \in Begin(m)' + 1 .. Begin(m)' + Bytes(m)'
      OBVIOUS
    <3>1. PICK m \in 1 .. written : Bytes(m) > 0 /\ a \in Begin(m) + 1 .. Begin(m) + Bytes(m)
      BY <2>2 DEF FileSoFar
    <3> QED BY <1>3, <2>4, <3>1
  <2> QED BY <2>5, <2>6, <2>7 DEF FileSoFar
<1>6. CASE Bytes(n) > 0
  <2> DEFINE z == Zeros(line.addr - old_vmaddr)
             gap == line.addr - old_vmaddr
             B == Begin(n)
  <2>1. line.codes # <<>> /\ line.codes \in Seq(Byte) /\ Len(line.codes) = Bytes(n) /\ line.addr = B
    BY <1>0, <1>2, <1>6, BytesOf, AddrOf, LineOf
  <2>2. /\ out' = out \o z \o line.codes
        /\ old_vmaddr' = B + Bytes(n)
    BY <2>1 DEF WriteLine
  <2>3. B \in Int /\ Bytes(n) \in Nat
    BY <1>2, <1>4
  <2>4. Len(out) = old_vmaddr /\ old_vmaddr >= 0
    BY <1>1 DEF FileSoFar
  <2>5. old_vmaddr <= B
    <3>1. CASE old_vmaddr = 0
      BY <3>1, <1>2, <1>6 DEF Ordered
    <3>2. ASSUME NEW m \in 1 .. written, Bytes(m) > 0, old_vmaddr = Begin(m) + Bytes(m)
          PROVE  old_vmaddr <= B
      BY <3>2, <1>2, <1>6 DEF Ordered
    <3> QED BY <3>1, <3>2 DEF FileSoFar
  <2>6. B >= 0
    BY <1>1, <2>3, <2>4, <2>5
  <2>7. z \in Seq(Byte) /\ Len(z) = gap /\ \A x \in 1 .. Len(z) : z[x] = Zero
    <3>1. gap \in Int /\ gap >= 0
      BY <1>1, <2>1, <2>3, <2>5
    <3> QED BY <3>1, ZerosType
  <2> HIDE DEF z, line
  <2>8. out \o z \in Seq(Byte) /\ Len(out \o z) = B
    <3>1. out \o z \in Seq(Byte) /\ Len(out \o z) = Len(out) + Len(z)
      BY <1>1, <2>7
    <3> QED BY <1>1, <2>1, <2>3, <2>4, <2>7, <3>1
  <2>9. /\ Len(out') = B + Bytes(n)
        /\ \A x \in 1 .. B : out'[x] = (out \o z)[x]
        /\ \A x \in 1 .. Bytes(n) : out'[B + x] = line.codes[x]
    <3> DEFINE w == out \o z
               c == line.codes
    <3>1. /\ w \in Seq(Byte) /\ Len(w) = B /\ c \in Seq(Byte) /\ Len(c) = Bytes(n)
          /\ out' = w \o c
      BY <2>1, <2>2, <2>8
    <3>2. /\ Len(w \o c) = Len(w) + Len(c)
          /\ \A x \in 1 .. Len(w) : (w \o c)[x] = w[x]
          /\ \A x \in 1 .. Len(c) : (w \o c)[Len(w) + x] = c[x]
      <4>1. w \in Seq(Byte) /\ c \in Seq(Byte)
        BY <3>1
      <4> HIDE DEF w, c
      <4> QED BY <4>1, Concatenated
    <3> HIDE DEF w, c, B
    <3>3. /\ Len(out') = B + Bytes(n)
          /\ \A x \in 1 .. B : out'[x] = w[x]
          /\ \A x \in 1 .. Bytes(n) : out'[B + x] = c[x]
      BY <3>1, <3>2, Zenon
    <3> QED BY <3>3 DEF w, c
  <2>10. \A x \in 1 .. B : out'[x] = IF x <= old_vmaddr THEN out[x] ELSE Zero
    <3> SUFFICES ASSUME NEW x \in 1 .. B
                 PROVE  out'[x] = IF x <= old_vmaddr THEN out[x] ELSE Zero
      OBVIOUS
    <3>0. out'[x] = (out \o z)[x] /\ x \in Int
      <4>1. out'[x] = (out \o z)[x]
        BY <2>9, Zenon
      <4>2. x \in Int
        BY <2>3
      <4> QED BY <4>1, <4>2
    <3>1. CASE x <= old_vmaddr
      <4>1. x \in 1 .. Len(out)
        BY <3>0, <3>1, <2>4
      <4>2. (out \o z)[x] = out[x]
        BY <4>1, <1>1, <2>7
      <4> QED BY <3>0, <3>1, <4>2
    <3>2. CASE ~(x <= old_vmaddr)
      <4>1. x - Len(out) \in 1 .. Len(z)
        BY <3>0, <3>2, <2>1, <2>3, <2>4, <2>7, <1>1
      <4>2. (out \o z)[x] = z[x - Len(out)]
        BY <3>0, <3>2, <4>1, <1>1, <2>4, <2>7, <2>8
      <4> QED BY <3>0, <3>2, <4>1, <4>2, <2>7
    <3> QED BY <3>1, <3>2
  <2>11. \A m \in 1 .. written' : Bytes(m) > 0 =>
           /\ Begin(m) + Bytes(m) <= old_vmaddr'
           /\ \A x \in 1 .. Bytes(m) : out'[Begin(m) + x] = lines[m].codes[x]
    <3> SUFFICES ASSUME NEW m \in 1 .. written', Bytes(m) > 0
                 PROVE  /\ Begin(m) + Bytes(m) <= old_vmaddr'
                        /\ \A x \in 1 .. Bytes(m) : out'[Begin(m) + x] = lines[m].codes[x]
      OBVIOUS
    <3>1. CASE m = n
      <4>1. line.codes = lines[n].codes
        BY <1>0 DEF line
      <4>2. B + Bytes(n) <= old_vmaddr'
        BY <2>2, <2>3
      <4> QED BY <3>1, <2>9, <4>1, <4>2
    <3>2. CASE m \in 1 .. written
      <4>1. /\ Begin(m) + Bytes(m) <= old_vmaddr /\ Begin(m) >= 0
            /\ \A x \in 1 .. Bytes(m) : out[Begin(m) + x] = lines[m].codes[x]
        BY <3>2, <1>2 DEF FileSoFar, Ordered
      <4>2. m \in Numbers /\ Begin(m) \in Int /\ Bytes(m) \in Nat
        BY <3>2, <1>2, <1>4
      <4>3. Begin(m) + Bytes(m) <= old_vmaddr'
        BY <4>1, <4>2, <2>2, <2>3, <2>5, <1>1
      <4>4. ASSUME NEW x \in 1 .. Bytes(m)
            PROVE  out'[Begin(m) + x] = lines[m].codes[x]
        <5>1. /\ Begin(m) + x \in 1 .. B /\ Begin(m) + x <= old_vmaddr
          BY <4>1, <4>2, <2>3, <2>5, <1>1
        <5>2. out'[Begin(m) + x] = out[Begin(m) + x]
          BY <5>1, <2>10
        <5> QED BY <4>1, <5>2
      <4> QED BY <4>3, <4>4
    <3> QED BY <3>1, <3>2, <1>2
  <2>12. \A a \in 1 .. Len(out') :
           \/ out'[a] = Zero
           \/ \E m \in 1 .. written' : Bytes(m) > 0 /\ a \in Begin(m) + 1 .. Begin(m) + Bytes(m)
    <3> SUFFICES ASSUME NEW a \in 1 .. Len(out'), out'[a] # Zero
                 PROVE  \E m \in 1 .. written' :
                          Bytes(m) > 0 /\ a \in Begin(m) + 1 .. Begin(m) + Bytes(m)
      OBVIOUS
    <3>1. CASE a <= B
      <4>1. a \in 1 .. Len(out) /\ out[a] # Zero
        BY <3>1, <2>3, <2>4, <2>9, <2>10, <1>1
      <4> QED BY <4>1, <1>2 DEF FileSoFar
    <3>2. CASE ~(a <= B)
      <4>1. a \in B + 1 .. B + Bytes(n)
        BY <3>2, <2>3, <2>9
      <4> QED BY <4>1, <1>2, <1>6
    <3> QED BY <3>1, <3>2
  <2>13. \E m \in 1 .. written' : Bytes(m) > 0 /\ old_vmaddr' = Begin(m) + Bytes(m)
    BY <1>2, <1>6, <2>2
  <2>14. Len(out') = old_vmaddr'
    BY <2>2, <2>9
  <2> HIDE DEF B, gap
  <2> QED BY <1>1, <1>3, <2>11, <2>12, <2>13, <2>14 DEF FileSoFar
<1> QED BY <1>2, <1>4, <1>5, <1>6

LEMMA FiledStep ==
  ASSUME TypeOK, Coded, Filled, Laid, Filed, [Next]_vars
  PROVE  Filed'
<1>1. ASSUME NEW label \in Labels \union {NoLabel}, NEW st \in Statements,
             ParseLine(label, st) \/ RejectLine(label, st)
      PROVE  Filed'
  BY <1>1 DEF ParseLine, RejectLine, Filed
<1>2. CASE EndOfFile \/ Relocate
  BY <1>2 DEF EndOfFile, Relocate, Filed
<1>3. CASE OpenFile
  <2>1. phase' = "binfile" /\ written' = 0 /\ old_vmaddr' = 0 /\ out' = <<>>
    BY <1>3 DEF OpenFile, Filed
  <2> QED BY <2>1 DEF Filed, FileSoFar
<1>4. CASE WriteLine
  <2>1. phase = "binfile" /\ phase' = phase /\ lines' = lines
    BY <1>4 DEF WriteLine
  <2>2. Ordered' => Ordered
    BY <2>1 DEF Ordered, Begin, Bytes, Numbers
  <2> QED BY <1>4, <2>1, <2>2, WriteStep DEF Filed
<1>5. CASE CloseFile
  <2>1. /\ phase = "binfile" /\ phase' = "done" /\ written = Len(lines)
        /\ UNCHANGED <<lines, written, old_vmaddr, out>>
    BY <1>5 DEF CloseFile
  <2> QED BY <2>1 DEF Filed, FileSoFar, Ordered, Begin, Bytes, Numbers
<1>6. CASE UNCHANGED vars
  BY <1>6 DEF vars, Filed, FileSoFar, Ordered, Begin, Bytes, Numbers
<1> QED BY <1>1, <1>2, <1>3, <1>4, <1>5, <1>6 DEF Next

-----------------------------------------------------------------------------
(* The addresses a program means, and the theorems.                         *)

\* The recursion over the lines gives the places where the lines begin: there is
\* a function that satisfies it, and no other, by the least line at which another
\* would differ.
LEMMA BeginIsAddress ==
  ASSUME TypeOK, Laid, Coded
  PROVE  \A n \in 1 .. Len(lines) + 1 : Address[n] = Begin(n)
<1> DEFINE D == 1 .. Len(lines) + 1
           Rule(f) == [n \in D |->
                         IF n = 1 THEN 0
                         ELSE IF Places(lines[n - 1].st) THEN Placed(lines[n - 1].st, f[n - 1])
                              ELSE f[n - 1] + Bytes(n - 1)]
           g == [n \in D |-> Begin(n)]
<1>1. Len(lines) \in Nat
  BY DEF TypeOK
<1>2. ASSUME NEW n \in D, n # 1
      PROVE  /\ n - 1 \in D
             /\ Begin(n) = IF Places(lines[n - 1].st) THEN Placed(lines[n - 1].st, Begin(n - 1))
                           ELSE Begin(n - 1) + Bytes(n - 1)
  <2>1. n - 1 \in Numbers /\ n - 1 \in D
    BY <1>1, <1>2 DEF Numbers
  <2>2. Begin(n) = lines[n - 1].addr + Len(lines[n - 1].codes)
    BY <1>2 DEF Begin
  <2>3. Len(lines[n - 1].codes) = Bytes(n - 1)
    BY <2>1, BytesOf
  <2>4. lines[n - 1].addr = IF Places(lines[n - 1].st) THEN Placed(lines[n - 1].st, Begin(n - 1))
                            ELSE Begin(n - 1)
    BY <2>1 DEF Laid
  <2>5. CASE Places(lines[n - 1].st)
    <3>1. Bytes(n - 1) = 0
      BY <2>5 DEF Bytes, Emits, Places
    <3>2. lines[n - 1].addr \in Int
      BY <2>1, LineOf
    <3> QED BY <2>1, <2>2, <2>3, <2>4, <2>5, <3>1, <3>2
  <2>6. CASE ~Places(lines[n - 1].st)
    BY <2>1, <2>2, <2>3, <2>4, <2>6
  <2> QED BY <2>5, <2>6
<1>3. g = Rule(g)
  <2>1. ASSUME NEW n \in D
        PROVE  Begin(n) = IF n = 1 THEN 0
                          ELSE IF Places(lines[n - 1].st) THEN Placed(lines[n - 1].st, g[n - 1])
                               ELSE g[n - 1] + Bytes(n - 1)
    <3>1. CASE n = 1
      BY <3>1 DEF Begin
    <3>2. CASE n # 1
      <4>1. g[n - 1] = Begin(n - 1)
        BY <1>2, <3>2
      <4> HIDE DEF g
      <4> QED BY <1>2, <3>2, <4>1
    <3> QED BY <3>1, <3>2
  <2> HIDE DEF D
  <2> QED BY <2>1
<1>4. Address = CHOOSE f : f = Rule(f)
  BY DEF Address
<1>5. Address = Rule(Address)
  <2> HIDE DEF Rule, g
  <2> QED BY <1>3, <1>4
<1>6. ASSUME NEW bad \in D, Address[bad] # Begin(bad)
      PROVE  FALSE
  <2> DEFINE Bad == {n \in D : Address[n] # Begin(n)}
  <2>1. Bad \subseteq Nat /\ Bad # {}
    BY <1>1, <1>6
  <2>2. PICK n \in Bad : \A m \in Bad : n <= m
    <3> HIDE DEF Bad
    <3> QED BY <2>1, NatLeast
  <2>3. Address[n] = IF n = 1 THEN 0
                     ELSE IF Places(lines[n - 1].st) THEN Placed(lines[n - 1].st, Address[n - 1])
                          ELSE Address[n - 1] + Bytes(n - 1)
    <3>1. Rule(Address)[n] = IF n = 1 THEN 0
                     ELSE IF Places(lines[n - 1].st) THEN Placed(lines[n - 1].st, Address[n - 1])
                          ELSE Address[n - 1] + Bytes(n - 1)
      OBVIOUS
    <3> HIDE DEF Rule
    <3> QED BY <1>5, <3>1
  <2>4. CASE n = 1
    BY <2>3, <2>4 DEF Begin
  <2>5. CASE n # 1
    <3>1. n - 1 \in D /\ n - 1 < n /\ n - 1 \in Nat
      BY <1>1, <2>5
    <3>2. Address[n - 1] = Begin(n - 1)
      BY <2>2, <3>1
    <3> QED BY <1>2, <2>3, <2>5, <3>2
  <2> QED BY <2>4, <2>5
<1> QED BY <1>6

\* A program that goes on to the end is right, and its file too.
LEMMA InvImplies ==
  ASSUME AsmInv
  PROVE  AssembledOrRefused
<1> USE DEF AsmInv
<1>1. \A n \in Numbers : Address[n] = Begin(n)
  <2>1. Numbers \subseteq 1 .. Len(lines) + 1
    BY DEF TypeOK, Numbers
  <2> QED BY <2>1, BeginIsAddress
<1>2. ASSUME phase = "done" PROVE ~Wrong
  <2>1. \A label \in Labels : ~Twice(label)
    BY <1>2, LabelAssumption DEF Named, Twice
  <2>2. \A n \in Numbers : ~NotUnderstood(n)
    BY <1>2 DEF Named
  <2>3. ASSUME NEW n \in Numbers PROVE ~Undefined(n)
    <3> SUFFICES ASSUME Bytes(n) > 0, lines[n].st.arg.label # NoLabel
                 PROVE  \E m \in Numbers : lines[m].label = lines[n].st.arg.label
      BY DEF Undefined
    <3>1. Emits(lines[n].st) /\ reltab = <<>>
      BY <1>2, BytesOf DEF Filled
    <3>2. ~Pending(n)
      BY <3>1 DEF Pending
    <3>3. lines[n].st.arg.label \in DOMAIN symtab
      BY <1>2, <3>1, <3>2 DEF Filled
    <3> QED BY <1>2, <3>3 DEF Named
  <2> QED BY <2>1, <2>2, <2>3 DEF Wrong
<1>3. ASSUME phase = "done", NEW n \in Numbers, Bytes(n) > 0
      PROVE  lines[n].codes = Encoded(n, lines[n].st, Value(n))
  <2> DEFINE label == lines[n].st.arg.label
  <2>1. Emits(lines[n].st) /\ reltab = <<>>
    BY <1>3, BytesOf DEF Filled
  <2>2. ~Pending(n)
    BY <2>1 DEF Pending
  <2>3. CASE label = NoLabel
    BY <1>3, <2>1, <2>3 DEF Filled, Value
  <2>4. CASE label # NoLabel
    <3>1. label \in DOMAIN symtab /\ lines[n].codes = Encoded(n, lines[n].st, symtab[label])
      BY <1>3, <2>1, <2>2, <2>4 DEF Filled
    <3>2. \E m \in Numbers : lines[m].label = label
      BY <1>3, <3>1 DEF Named
    <3> DEFINE m == CHOOSE m \in Numbers : lines[m].label = label
    <3>3. m \in Numbers /\ lines[m].label = label
      BY <3>2
    <3>4. symtab[label] = Begin(m)
      <4> HIDE DEF m
      <4> QED BY <1>3, <2>4, <3>3 DEF Named
    <3>5. Value(n) = Address[m]
      BY <2>4 DEF Value
    <3>6. Address[m] = Begin(m)
      BY <1>1, <3>3
    <3> QED BY <3>1, <3>4, <3>5, <3>6
  <2> QED BY <2>3, <2>4
<1>4. ASSUME phase = "done", Forward
      PROVE  /\ \A n \in Numbers : Bytes(n) > 0 => Address[n] + Bytes(n) <= Len(out)
             /\ \A a \in 1 .. Len(out) : out[a] = ByteAt(a - 1)
  <2>1. Ordered
    BY <1>1, <1>4 DEF Forward, Ordered
  <2>2. FileSoFar /\ 1 .. written = Numbers
    BY <1>4, <2>1 DEF Filed, Numbers
  <2>3. \A n \in Numbers : Bytes(n) > 0 => Address[n] + Bytes(n) <= Len(out)
    BY <1>1, <2>2 DEF FileSoFar
  <2>4. ASSUME NEW a \in 1 .. Len(out) PROVE out[a] = ByteAt(a - 1)
    <3> DEFINE Here(n) == Bytes(n) > 0 /\ a - 1 \in Address[n] .. Address[n] + Bytes(n) - 1
    <3>1. CASE \E n \in Numbers : Here(n)
      <4> DEFINE n == CHOOSE n \in Numbers : Here(n)
      <4>1. n \in Numbers /\ Here(n)
        BY <3>1
      <4>2. ByteAt(a - 1) = Encoded(n, lines[n].st, Value(n))[a - 1 - Address[n] + 1]
        BY <3>1 DEF ByteAt
      <4> HIDE DEF n
      <4>3. Address[n] = Begin(n) /\ Begin(n) \in Int /\ Bytes(n) \in Nat /\ a \in Int
        <5>1. n \in 1 .. Len(lines) + 1
          BY <4>1 DEF TypeOK, Numbers
        <5>2. Begin(n) \in Int /\ Bytes(n) \in Nat
          BY <4>1, <5>1, BeginType, BytesOf
        <5> QED BY <1>1, <4>1, <5>2
      <4> DEFINE x == a - Begin(n)
      <4>4. x \in 1 .. Bytes(n) /\ Begin(n) + x = a /\ a - 1 - Address[n] + 1 = x
        BY <4>1, <4>3
      <4>5. out[Begin(n) + x] = lines[n].codes[x]
        <5> HIDE DEF x
        <5> QED BY <2>2, <4>1, <4>4 DEF FileSoFar
      <4>6. lines[n].codes = Encoded(n, lines[n].st, Value(n))
        BY <1>3, <1>4, <4>1
      <4> QED BY <4>2, <4>4, <4>5, <4>6
    <3>2. CASE ~\E n \in Numbers : Here(n)
      <4>1. ByteAt(a - 1) = Zero
        BY <3>2 DEF ByteAt
      <4>2. out[a] = Zero
        <5> SUFFICES ASSUME NEW m \in Numbers, Bytes(m) > 0,
                            a \in Begin(m) + 1 .. Begin(m) + Bytes(m)
                     PROVE  FALSE
          BY <2>2 DEF FileSoFar
        <5>1. Begin(m) \in Int /\ Bytes(m) \in Nat /\ Address[m] = Begin(m)
          <6>1. m \in 1 .. Len(lines) + 1
            BY DEF TypeOK, Numbers
          <6> QED BY <1>1, <6>1, BeginType, BytesOf
        <5>2. Here(m)
          BY <5>1
        <5> QED BY <3>2, <5>2
      <4> QED BY <4>1, <4>2
    <3> QED BY <3>1, <3>2
  <2> QED BY <2>3, <2>4
<1> QED BY <1>2, <1>4 DEF Refused, AssembledOrRefused

LEMMA AsmInit == Init => AsmInv
<1> SUFFICES ASSUME Init PROVE AsmInv
  OBVIOUS
<1>1. Len(lines) = 0 /\ Numbers = {}
  BY DEF Init, Numbers
<1>2. symtab \in [{} -> Int]
  BY DEF Init
<1>3. TypeOK
  BY <1>1, <1>2 DEF Init, TypeOK
<1>4. Laid /\ Coded
  BY <1>1 DEF Init, Laid, Coded, Begin
<1>5. Named /\ Refused
  BY <1>1, <1>2 DEF Init, Named, Refused
<1>6. Filled /\ Filed
  BY <1>1 DEF Init, Filled, Filed
<1> QED BY <1>3, <1>4, <1>5, <1>6 DEF AsmInv

LEMMA AsmStep == AsmInv /\ [Next]_vars => AsmInv'
BY TypeStep, LaidStep, CodedStep, NamedStep, FilledStep, FiledStep, RefusedStep DEF AsmInv

\* The types of the assembler's variables, and what it has done so far: every line
\* is where the one before it ends or where it says, the table of labels is that of
\* the lines, every operand has its value or is still to be filled in, and the file
\* holds the lines written so far.
THEOREM AssemblerInvariant == Spec => []AsmInv
BY AsmInit, AsmStep, PTL DEF Spec

\* y64asm refuses exactly the wrong programs, and writes of any other the bytes that
\* it means at the addresses that it means: for every program, whatever its length
\* and its labels, forward references and .pos and .align included.
THEOREM AssemblesOrRefuses == Spec => []AssembledOrRefused
<1>1. AsmInv => AssembledOrRefused
  BY InvImplies
<1> QED BY <1>1, AssemblerInvariant, PTL
=============================================================================
