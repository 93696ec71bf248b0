--------------------------- MODULE Script_proofs ---------------------------
(***************************************************************************)
(* The interpreter of BitVM scripts, for scripts of any length: what it    *)
(* executes is what the nesting of the text says.                          *)
(*                                                                         *)
(* The reference counts over prefixes of the script.  Here the counts are  *)
(* operators on any sequence of instructions, and the lemmas say what      *)
(* becomes of them when one more instruction is appended.                  *)
(***************************************************************************)
EXTENDS ScriptMachine, DataTheorems

OpensIn(s, i) == s[i].op \in {"IF", "NOTIF"}
Openings(s, n) == {j \in 1 .. n : OpensIn(s, j)}
Closings(s, n) == {j \in 1 .. n : s[j].op = "ENDIF"}
DepthIn(s, n) == Cardinality(Openings(s, n)) - Cardinality(Closings(s, n))
EnclosingIn(s) ==
  {i \in 1 .. Len(s) : OpensIn(s, i) /\ \A j \in i .. Len(s) : DepthIn(s, j) >= DepthIn(s, i)}
ElsesIn(s, i) == {j \in i + 1 .. Len(s) : s[j].op = "ELSE" /\ DepthIn(s, j) = DepthIn(s, i)}

LEMMA TextOfScript ==
  ASSUME script \in Seq(Instructions)
  PROVE  Enclosing = EnclosingIn(script) /\ \A i : ElsesOf(i) = ElsesIn(script, i)
<1>1. \A i : Depth(i) = DepthIn(script, i)
  BY DEF Depth, DepthIn, Openings, Closings, Opens, OpensIn
<1>2. DOMAIN script = 1 .. Len(script)
  OBVIOUS
<1> QED BY <1>1, <1>2 DEF Enclosing, EnclosingIn, ElsesOf, ElsesIn, Opens, OpensIn

\* The same for the next state.
LEMMA TextOfNextScript ==
  ASSUME script' \in Seq(Instructions)
  PROVE  Enclosing' = EnclosingIn(script') /\ \A i : ElsesOf(i)' = ElsesIn(script', i)
<1>1. \A i : Depth(i)' = DepthIn(script', i)
  BY DEF Depth, DepthIn, Openings, Closings, Opens, OpensIn
<1>2. DOMAIN script' = 1 .. Len(script')
  OBVIOUS
<1> QED BY <1>1, <1>2 DEF Enclosing, EnclosingIn, ElsesOf, ElsesIn, Opens, OpensIn

-----------------------------------------------------------------------------
(* Counting one more instruction.                                          *)

LEMMA AppendIndex ==
  ASSUME NEW s \in Seq(Instructions), NEW e \in Instructions
  PROVE  /\ Append(s, e) \in Seq(Instructions) /\ Len(s) \in Nat
         /\ Len(Append(s, e)) = Len(s) + 1 /\ Append(s, e)[Len(s) + 1] = e
         /\ \A i \in 1 .. Len(s) : Append(s, e)[i] = s[i]
OBVIOUS

LEMMA CountsFinite ==
  ASSUME NEW s, NEW n \in Nat
  PROVE  /\ IsFiniteSet(Openings(s, n)) /\ IsFiniteSet(Closings(s, n))
         /\ Cardinality(Openings(s, n)) \in Nat /\ Cardinality(Closings(s, n)) \in Nat
         /\ DepthIn(s, n) \in Int
<1>1. IsFiniteSet(1 .. n)
  BY FS_Interval
<1>2. Openings(s, n) \subseteq 1 .. n /\ Closings(s, n) \subseteq 1 .. n
  BY DEF Openings, Closings
<1>3. IsFiniteSet(Openings(s, n)) /\ IsFiniteSet(Closings(s, n))
  BY <1>1, <1>2, FS_Subset
<1>4. Cardinality(Openings(s, n)) \in Nat /\ Cardinality(Closings(s, n)) \in Nat
  BY <1>3, FS_CardinalityType
<1> QED BY <1>3, <1>4 DEF DepthIn

LEMMA DepthBefore ==
  ASSUME NEW s \in Seq(Instructions), NEW e \in Instructions, NEW n \in 0 .. Len(s)
  PROVE  DepthIn(Append(s, e), n) = DepthIn(s, n)
<1>1. \A i \in 1 .. n : Append(s, e)[i] = s[i]
  BY AppendIndex
<1>2. Openings(Append(s, e), n) = Openings(s, n) /\ Closings(Append(s, e), n) = Closings(s, n)
  BY <1>1 DEF Openings, Closings, OpensIn
<1> QED BY <1>2 DEF DepthIn

Turn(e) == IF e.op \in {"IF", "NOTIF"} THEN 1 ELSE IF e.op = "ENDIF" THEN -1 ELSE 0

LEMMA DepthAfter ==
  ASSUME NEW s \in Seq(Instructions), NEW e \in Instructions
  PROVE  DepthIn(Append(s, e), Len(s) + 1) = DepthIn(s, Len(s)) + Turn(e)
<1>1. PICK n \in Nat : n = Len(s)
  OBVIOUS
<1>2. PICK t \in Seq(Instructions) : t = Append(s, e)
  BY AppendIndex
<1>3. t[n + 1] = e /\ \A i \in 1 .. n : t[i] = s[i]
  BY <1>1, <1>2, AppendIndex
<1>4. Openings(t, n + 1) = IF e.op \in {"IF", "NOTIF"} THEN Openings(s, n) \cup {n + 1} ELSE Openings(s, n)
  BY <1>1, <1>3 DEF Openings, OpensIn
<1>5. Closings(t, n + 1) = IF e.op = "ENDIF" THEN Closings(s, n) \cup {n + 1} ELSE Closings(s, n)
  BY <1>1, <1>3 DEF Closings
<1>6. n + 1 \notin Openings(s, n) /\ n + 1 \notin Closings(s, n)
  BY <1>1 DEF Openings, Closings
<1>7. /\ IsFiniteSet(Openings(s, n)) /\ IsFiniteSet(Closings(s, n))
      /\ Cardinality(Openings(s, n)) \in Nat /\ Cardinality(Closings(s, n)) \in Nat
  BY CountsFinite
<1>8. /\ Cardinality(Openings(s, n) \cup {n + 1}) = Cardinality(Openings(s, n)) + 1
      /\ Cardinality(Closings(s, n) \cup {n + 1}) = Cardinality(Closings(s, n)) + 1
  BY <1>6, <1>7, FS_AddElement
<1>9. PICK p \in Nat, q \in Nat : p = Cardinality(Openings(s, n)) /\ q = Cardinality(Closings(s, n))
  BY <1>7
<1>10. Cardinality(Openings(t, n + 1)) = IF e.op \in {"IF", "NOTIF"} THEN p + 1 ELSE p
  BY <1>4, <1>8, <1>9
<1>11. Cardinality(Closings(t, n + 1)) = IF e.op = "ENDIF" THEN q + 1 ELSE q
  BY <1>5, <1>8, <1>9
<1>12. DepthIn(t, n + 1) = (p - q) + Turn(e)
  BY <1>10, <1>11 DEF DepthIn, Turn
<1>13. DepthIn(s, n) = p - q
  BY <1>9 DEF DepthIn
<1> QED BY <1>1, <1>2, <1>12, <1>13

\* The IFs around the end, after one more instruction: those that are not deeper than
\* where it ends, and the instruction itself if it is an IF.
LEMMA EnclosingAfter ==
  ASSUME NEW s \in Seq(Instructions), NEW e \in Instructions
  PROVE  EnclosingIn(Append(s, e)) =
           {i \in EnclosingIn(s) : DepthIn(s, i) <= DepthIn(s, Len(s)) + Turn(e)}
             \cup (IF e.op \in {"IF", "NOTIF"} THEN {Len(s) + 1} ELSE {})
<1>1. PICK n \in Nat : n = Len(s)
  OBVIOUS
<1>2. PICK t \in Seq(Instructions) : t = Append(s, e)
  BY AppendIndex
<1>3. t[n + 1] = e /\ Len(t) = n + 1 /\ \A i \in 1 .. n : t[i] = s[i]
  BY <1>1, <1>2, AppendIndex
<1>4. PICK d : d = DepthIn(s, Len(s)) + Turn(e)
  OBVIOUS
<1>5. DepthIn(t, n + 1) = d
  BY <1>1, <1>2, <1>4, DepthAfter
<1>6. \A i \in 0 .. n : DepthIn(t, i) = DepthIn(s, i) /\ DepthIn(s, i) \in Int
  BY <1>1, <1>2, DepthBefore, CountsFinite
<1>7. d \in Int
  BY <1>4, CountsFinite, <1>1 DEF Turn
<1>8. ASSUME NEW i \in 1 .. n
      PROVE  i \in EnclosingIn(t) <=> i \in EnclosingIn(s) /\ DepthIn(s, i) <= d
  <2>1. i \in EnclosingIn(t) <=> OpensIn(s, i) /\ \A j \in i .. n + 1 : DepthIn(t, j) >= DepthIn(s, i)
    <3>1. i \in 1 .. Len(t) /\ DepthIn(t, i) = DepthIn(s, i) /\ (OpensIn(t, i) <=> OpensIn(s, i))
      BY <1>3, <1>6 DEF OpensIn
    <3> QED BY <1>3, <3>1 DEF EnclosingIn
  <2>2. i \in EnclosingIn(s) <=> OpensIn(s, i) /\ \A j \in i .. n : DepthIn(s, j) >= DepthIn(s, i)
    BY <1>1 DEF EnclosingIn, OpensIn
  <2>3. (\A j \in i .. n + 1 : DepthIn(t, j) >= DepthIn(s, i))
          <=> (\A j \in i .. n : DepthIn(s, j) >= DepthIn(s, i)) /\ DepthIn(s, i) <= d
    <3>1. \A j \in i .. n + 1 : j = n + 1 \/ j \in i .. n
      OBVIOUS
    <3>2. i .. n \subseteq i .. n + 1 /\ n + 1 \in i .. n + 1 /\ i .. n \subseteq 0 .. n
      OBVIOUS
    <3>3. d >= DepthIn(s, i) <=> DepthIn(s, i) <= d
      BY <1>6, <1>7
    <3> QED BY <1>5, <1>6, <3>1, <3>2, <3>3
  <2> QED BY <2>1, <2>2, <2>3
<1>9. n + 1 \in EnclosingIn(t) <=> e.op \in {"IF", "NOTIF"}
  <2>1. \A j \in n + 1 .. n + 1 : DepthIn(t, j) >= DepthIn(t, n + 1)
    BY <1>5, <1>7
  <2> QED BY <1>3, <2>1 DEF EnclosingIn, OpensIn
<1>10. EnclosingIn(t) \subseteq 1 .. n + 1 /\ EnclosingIn(s) \subseteq 1 .. n
  BY <1>1, <1>3 DEF EnclosingIn
<1>11. EnclosingIn(t) = {i \in EnclosingIn(s) : DepthIn(s, i) <= d}
                         \cup (IF e.op \in {"IF", "NOTIF"} THEN {n + 1} ELSE {})
  BY <1>8, <1>9, <1>10
<1> QED BY <1>1, <1>2, <1>4, <1>11

\* An ELSE belongs to the IF whose depth the text has there.
LEMMA ElsesAfter ==
  ASSUME NEW s \in Seq(Instructions), NEW e \in Instructions
  PROVE  /\ \A i \in 1 .. Len(s) :
              ElsesIn(Append(s, e), i) =
                ElsesIn(s, i) \cup (IF e.op = "ELSE" /\ DepthIn(s, Len(s)) = DepthIn(s, i)
                                    THEN {Len(s) + 1} ELSE {})
         /\ ElsesIn(Append(s, e), Len(s) + 1) = {}
<1>1. PICK n \in Nat : n = Len(s)
  OBVIOUS
<1>2. PICK t \in Seq(Instructions) : t = Append(s, e)
  BY AppendIndex
<1>3. t[n + 1] = e /\ Len(t) = n + 1 /\ \A i \in 1 .. n : t[i] = s[i]
  BY <1>1, <1>2, AppendIndex
<1>4. e.op = "ELSE" => DepthIn(t, n + 1) = DepthIn(s, n)
  <2>1. e.op = "ELSE" => Turn(e) = 0
    BY DEF Turn
  <2> QED BY <1>1, <1>2, <2>1, DepthAfter, CountsFinite
<1>5. \A i \in 0 .. n : DepthIn(t, i) = DepthIn(s, i)
  BY <1>1, <1>2, DepthBefore
<1>6. ASSUME NEW i \in 1 .. n
      PROVE  ElsesIn(t, i) = ElsesIn(s, i) \cup (IF e.op = "ELSE" /\ DepthIn(s, n) = DepthIn(s, i)
                                                 THEN {n + 1} ELSE {})
  <2>1. \A j \in i + 1 .. n : j \in ElsesIn(t, i) <=> j \in ElsesIn(s, i)
    BY <1>1, <1>3, <1>5 DEF ElsesIn
  <2>2. n + 1 \in ElsesIn(t, i) <=> e.op = "ELSE" /\ DepthIn(s, n) = DepthIn(s, i)
    BY <1>3, <1>4, <1>5 DEF ElsesIn
  <2>3. ElsesIn(t, i) \subseteq i + 1 .. n + 1 /\ ElsesIn(s, i) \subseteq i + 1 .. n
    BY <1>1, <1>3 DEF ElsesIn
  <2>4. i + 1 .. n + 1 = (i + 1 .. n) \cup {n + 1}
    OBVIOUS
  <2> QED BY <2>1, <2>2, <2>3, <2>4
<1>7. ElsesIn(t, n + 1) = {}
  BY <1>3 DEF ElsesIn
<1> QED BY <1>1, <1>2, <1>6, <1>7

LEMMA ElsesKept ==
  ASSUME NEW s \in Seq(Instructions), NEW e \in Instructions, NEW i \in 1 .. Len(s),
         e.op # "ELSE" \/ DepthIn(s, Len(s)) # DepthIn(s, i)
  PROVE  ElsesIn(Append(s, e), i) = ElsesIn(s, i)
<1>1. ElsesIn(Append(s, e), i) =
        ElsesIn(s, i) \cup (IF e.op = "ELSE" /\ DepthIn(s, Len(s)) = DepthIn(s, i)
                            THEN {Len(s) + 1} ELSE {})
  BY ElsesAfter
<1>2. ~(e.op = "ELSE" /\ DepthIn(s, Len(s)) = DepthIn(s, i))
  OBVIOUS
<1> QED BY <1>1, <1>2

-----------------------------------------------------------------------------
(* The invariant: if_stack has one entry for each IF around the end of the *)
(* script, at the IF's depth, and the entry says whether its branch runs.  *)

Even(S) == Cardinality(S) % 2 = 0

Entry(s, t, i) == t[i] <=> Even(ElsesIn(s, i))

Nested(s, t, q) ==
  /\ DepthIn(s, Len(s)) = Len(q) /\ Cardinality(EnclosingIn(s)) = Len(q)
  /\ \A i \in EnclosingIn(s) : DepthIn(s, i) \in 1 .. Len(q)
  /\ \A i, j \in EnclosingIn(s) : DepthIn(s, i) = DepthIn(s, j) => i = j
  /\ \A k \in 1 .. Len(q) : \E i \in EnclosingIn(s) : DepthIn(s, i) = k
  /\ \A i \in EnclosingIn(s) : q[DepthIn(s, i)] <=> Entry(s, t, i)

AllRun(q) == \A k \in 1 .. Len(q) : q[k]

LEMMA EvenTurns ==
  ASSUME NEW S, IsFiniteSet(S), NEW e, e \notin S
  PROVE  Even(S \cup {e}) <=> ~Even(S)
<1>1. PICK c \in Nat : c = Cardinality(S)
  BY FS_CardinalityType
<1>2. Cardinality(S \cup {e}) = c + 1
  BY <1>1, FS_AddElement
<1>3. (c + 1) % 2 = 0 <=> c % 2 # 0
  OBVIOUS
<1> QED BY <1>1, <1>2, <1>3 DEF Even

LEMMA EnclosingFinite ==
  ASSUME NEW s \in Seq(Instructions)
  PROVE  /\ IsFiniteSet(EnclosingIn(s)) /\ EnclosingIn(s) \subseteq 1 .. Len(s)
         /\ \A i \in 1 .. Len(s) : IsFiniteSet(ElsesIn(s, i)) /\ Len(s) + 1 \notin ElsesIn(s, i)
<1>1. PICK n \in Nat : n = Len(s)
  OBVIOUS
<1>2. EnclosingIn(s) \subseteq 1 .. n
  BY <1>1 DEF EnclosingIn
<1>3. \A i \in 1 .. n : ElsesIn(s, i) \subseteq 1 .. n
  BY <1>1 DEF ElsesIn
<1>4. IsFiniteSet(1 .. n) /\ n + 1 \notin 1 .. n
  BY FS_Interval
<1> QED BY <1>1, <1>2, <1>3, <1>4, FS_Subset

\* An instruction that is no branch.
LEMMA NestedPlain ==
  ASSUME NEW s \in Seq(Instructions), NEW e \in Instructions, e.op \notin Branching,
         NEW t \in Seq(BOOLEAN), Len(t) = Len(s), NEW q \in Seq(BOOLEAN), Nested(s, t, q),
         NEW b \in BOOLEAN
  PROVE  Nested(Append(s, e), Append(t, b), q)
<1>1. PICK n \in Nat : n = Len(s)
  OBVIOUS
<1>2. PICK r : r = Append(s, e)
  OBVIOUS
<1>3. PICK u : u = Append(t, b)
  OBVIOUS
<1>4. Turn(e) = 0 /\ e.op \notin {"IF", "NOTIF"} /\ e.op # "ELSE"
  BY DEF Turn, Branching
<1>5. Len(r) = n + 1 /\ DepthIn(r, n + 1) = DepthIn(s, n) /\ DepthIn(s, n) = Len(q)
  BY <1>1, <1>2, <1>4, DepthAfter, AppendIndex, CountsFinite DEF Nested
<1>6. EnclosingIn(r) = EnclosingIn(s)
  <2>1. \A i \in EnclosingIn(s) : DepthIn(s, i) <= DepthIn(s, n) + 0
    BY <1>5 DEF Nested
  <2> QED BY <1>1, <1>2, <1>4, <2>1, EnclosingAfter
<1>7. \A i \in EnclosingIn(s) : i \in 1 .. n /\ i \in 0 .. n
  BY <1>1, EnclosingFinite
<1>8. \A i \in EnclosingIn(s) : DepthIn(r, i) = DepthIn(s, i)
  BY <1>1, <1>2, <1>7, DepthBefore
<1>9. \A i \in EnclosingIn(s) : ElsesIn(r, i) = ElsesIn(s, i) /\ (u[i] <=> t[i])
  <2>1. \A i \in EnclosingIn(s) : ElsesIn(r, i) = ElsesIn(s, i)
    BY <1>1, <1>2, <1>4, <1>7, ElsesKept
  <2>2. \A i \in EnclosingIn(s) : u[i] <=> t[i]
    BY <1>1, <1>3, <1>7
  <2> QED BY <2>1, <2>2
<1>10. \A i \in EnclosingIn(s) : Entry(r, u, i) <=> Entry(s, t, i)
  BY <1>9 DEF Entry
<1> QED BY <1>1, <1>2, <1>3, <1>5, <1>6, <1>8, <1>10 DEF Nested

\* An IF: it is around the end now, and has no ELSE yet.
LEMMA NestedIf ==
  ASSUME NEW s \in Seq(Instructions), NEW e \in Instructions, e.op \in {"IF", "NOTIF"},
         NEW t \in Seq(BOOLEAN), Len(t) = Len(s), NEW q \in Seq(BOOLEAN), Nested(s, t, q),
         NEW b \in BOOLEAN
  PROVE  Nested(Append(s, e), Append(t, b), Append(q, b))
<1>1. PICK n \in Nat, m \in Nat : n = Len(s) /\ m = Len(q)
  OBVIOUS
<1>2. PICK r : r = Append(s, e)
  OBVIOUS
<1>3. PICK u : u = Append(t, b)
  OBVIOUS
<1>4. PICK w : w = Append(q, b)
  OBVIOUS
<1>5. Turn(e) = 1 /\ e.op # "ELSE"
  BY DEF Turn
<1>6. Len(r) = n + 1 /\ DepthIn(r, n + 1) = m + 1 /\ DepthIn(s, n) = m
  BY <1>1, <1>2, <1>5, DepthAfter, AppendIndex DEF Nested
<1>7. Len(w) = m + 1 /\ (w[m + 1] <=> b) /\ \A k \in 1 .. m : w[k] <=> q[k]
  BY <1>1, <1>4
<1>8. EnclosingIn(r) = EnclosingIn(s) \cup {n + 1}
  <2>1. \A i \in EnclosingIn(s) : DepthIn(s, i) <= DepthIn(s, n) + 1
    BY <1>1, <1>6 DEF Nested
  <2> QED BY <1>1, <1>2, <1>5, <2>1, EnclosingAfter
<1>9. \A i \in EnclosingIn(s) : i \in 1 .. n /\ i \in 0 .. n
  BY <1>1, EnclosingFinite
<1>10. \A i \in EnclosingIn(s) : DepthIn(r, i) = DepthIn(s, i) /\ DepthIn(s, i) \in 1 .. m
  BY <1>1, <1>2, <1>9, DepthBefore DEF Nested
<1>11. \A i \in EnclosingIn(s) : ElsesIn(r, i) = ElsesIn(s, i) /\ (u[i] <=> t[i])
  <2>1. \A i \in EnclosingIn(s) : ElsesIn(r, i) = ElsesIn(s, i)
    BY <1>1, <1>2, <1>5, <1>9, ElsesKept
  <2>2. \A i \in EnclosingIn(s) : u[i] <=> t[i]
    BY <1>1, <1>3, <1>9
  <2> QED BY <2>1, <2>2
<1>12. \A i \in EnclosingIn(s) : Entry(r, u, i) <=> Entry(s, t, i)
  BY <1>11 DEF Entry
<1>13. Entry(r, u, n + 1) <=> b
  <2>1. ElsesIn(r, n + 1) = {} /\ (u[n + 1] <=> b)
    BY <1>1, <1>2, <1>3, ElsesAfter
  <2>2. Even({})
    BY FS_EmptySet DEF Even
  <2> QED BY <2>1, <2>2 DEF Entry
<1>14. Cardinality(EnclosingIn(r)) = m + 1
  <2>1. n + 1 \notin EnclosingIn(s)
    BY <1>9
  <2>2. Cardinality(EnclosingIn(s)) = m /\ IsFiniteSet(EnclosingIn(s))
    BY <1>1, EnclosingFinite DEF Nested
  <2> QED BY <1>8, <2>1, <2>2, FS_AddElement
<1>15. \A i \in EnclosingIn(r) : DepthIn(r, i) \in 1 .. Len(w)
  BY <1>6, <1>7, <1>8, <1>10
<1>16. \A i, j \in EnclosingIn(r) : DepthIn(r, i) = DepthIn(r, j) => i = j
  <2>1. \A i \in EnclosingIn(s) : DepthIn(r, i) # m + 1
    BY <1>10
  <2>2. \A i, j \in EnclosingIn(s) : DepthIn(r, i) = DepthIn(r, j) => i = j
    BY <1>10 DEF Nested
  <2> QED BY <1>6, <1>8, <2>1, <2>2
<1>17. \A k \in 1 .. Len(w) : \E i \in EnclosingIn(r) : DepthIn(r, i) = k
  <2>1. \A k \in 1 .. m : \E i \in EnclosingIn(s) : DepthIn(r, i) = k
    BY <1>1, <1>10 DEF Nested
  <2>2. \A k \in 1 .. m + 1 : k \in 1 .. m \/ k = m + 1
    OBVIOUS
  <2> QED BY <1>6, <1>7, <1>8, <2>1, <2>2
<1>18. \A i \in EnclosingIn(r) : w[DepthIn(r, i)] <=> Entry(r, u, i)
  <2>1. \A i \in EnclosingIn(s) : w[DepthIn(r, i)] <=> Entry(r, u, i)
    BY <1>7, <1>10, <1>12 DEF Nested
  <2>2. w[DepthIn(r, n + 1)] <=> Entry(r, u, n + 1)
    BY <1>6, <1>7, <1>13
  <2> QED BY <1>8, <2>1, <2>2
<1> QED BY <1>2, <1>3, <1>4, <1>6, <1>7, <1>14, <1>15, <1>16, <1>17, <1>18 DEF Nested

\* An ELSE turns the entry of the innermost IF.
LEMMA NestedElse ==
  ASSUME NEW s \in Seq(Instructions), NEW e \in Instructions, e.op = "ELSE",
         NEW t \in Seq(BOOLEAN), Len(t) = Len(s), NEW q \in Seq(BOOLEAN), Nested(s, t, q),
         q # <<>>, NEW b \in BOOLEAN, NEW w \in Seq(BOOLEAN), Len(w) = Len(q),
         w[Len(q)] <=> ~q[Len(q)], \A k \in 1 .. Len(q) - 1 : w[k] <=> q[k]
  PROVE  Nested(Append(s, e), Append(t, b), w)
<1>1. PICK n \in Nat, m \in Nat : n = Len(s) /\ m = Len(q)
  OBVIOUS
<1>2. PICK r : r = Append(s, e)
  OBVIOUS
<1>3. PICK u : u = Append(t, b)
  OBVIOUS
<1>4. Turn(e) = 0 /\ e.op \notin {"IF", "NOTIF"}
  BY DEF Turn
<1>5. Len(r) = n + 1 /\ DepthIn(r, n + 1) = DepthIn(s, n) /\ DepthIn(s, n) = m
  BY <1>1, <1>2, <1>4, DepthAfter, AppendIndex, CountsFinite DEF Nested
<1>6. EnclosingIn(r) = EnclosingIn(s)
  <2>1. \A i \in EnclosingIn(s) : DepthIn(s, i) <= DepthIn(s, n) + 0
    BY <1>1, <1>5 DEF Nested
  <2> QED BY <1>1, <1>2, <1>4, <2>1, EnclosingAfter
<1>7. \A i \in EnclosingIn(s) : i \in 1 .. n /\ i \in 0 .. n
  BY <1>1, EnclosingFinite
<1>8. \A i \in EnclosingIn(s) : DepthIn(r, i) = DepthIn(s, i) /\ DepthIn(s, i) \in 1 .. m
  BY <1>1, <1>2, <1>7, DepthBefore DEF Nested
<1>9. ASSUME NEW i \in EnclosingIn(s) PROVE w[DepthIn(r, i)] <=> Entry(r, u, i)
  <2>1. (u[i] <=> t[i]) /\ (q[DepthIn(s, i)] <=> Entry(s, t, i))
    BY <1>1, <1>3, <1>7 DEF Nested
  <2>2. CASE DepthIn(s, i) = m
    <3>1. ElsesIn(r, i) = ElsesIn(s, i) \cup {n + 1}
      BY <1>1, <1>2, <1>5, <1>7, <2>2, ElsesAfter
    <3>2. IsFiniteSet(ElsesIn(s, i)) /\ n + 1 \notin ElsesIn(s, i)
      BY <1>1, <1>7, EnclosingFinite
    <3>3. Even(ElsesIn(r, i)) <=> ~Even(ElsesIn(s, i))
      BY <3>1, <3>2, EvenTurns
    <3>4. w[m] <=> ~q[m]
      BY <1>1
    <3> QED BY <1>8, <2>1, <2>2, <3>3, <3>4 DEF Entry
  <2>3. CASE DepthIn(s, i) # m
    <3>1. ElsesIn(r, i) = ElsesIn(s, i)
      BY <1>1, <1>2, <1>5, <1>7, <2>3, ElsesKept
    <3>2. DepthIn(s, i) \in 1 .. m - 1
      BY <1>8, <2>3
    <3>3. w[DepthIn(s, i)] <=> q[DepthIn(s, i)]
      BY <1>1, <3>2
    <3> QED BY <1>8, <2>1, <3>1, <3>3 DEF Entry
  <2> QED BY <2>2, <2>3
<1>10. /\ \A i \in EnclosingIn(r) : DepthIn(r, i) \in 1 .. Len(w)
       /\ \A i, j \in EnclosingIn(r) : DepthIn(r, i) = DepthIn(r, j) => i = j
       /\ \A k \in 1 .. Len(w) : \E i \in EnclosingIn(r) : DepthIn(r, i) = k
  BY <1>1, <1>6, <1>8 DEF Nested
<1>11. DepthIn(r, Len(r)) = Len(w) /\ Cardinality(EnclosingIn(r)) = Len(w)
  BY <1>1, <1>5, <1>6 DEF Nested
<1> QED BY <1>2, <1>3, <1>6, <1>9, <1>10, <1>11 DEF Nested

\* An ENDIF closes the innermost IF.
LEMMA NestedEndIf ==
  ASSUME NEW s \in Seq(Instructions), NEW e \in Instructions, e.op = "ENDIF",
         NEW t \in Seq(BOOLEAN), Len(t) = Len(s), NEW q \in Seq(BOOLEAN), Nested(s, t, q),
         q # <<>>, NEW b \in BOOLEAN, NEW w \in Seq(BOOLEAN), Len(w) = Len(q) - 1,
         \A k \in 1 .. Len(q) - 1 : w[k] <=> q[k]
  PROVE  Nested(Append(s, e), Append(t, b), w)
<1>1. PICK n \in Nat, m \in Nat : n = Len(s) /\ m = Len(q)
  OBVIOUS
<1>2. PICK r : r = Append(s, e)
  OBVIOUS
<1>3. PICK u : u = Append(t, b)
  OBVIOUS
<1>4. Turn(e) = -1 /\ e.op \notin {"IF", "NOTIF"} /\ e.op # "ELSE"
  BY DEF Turn
<1>5. Len(r) = n + 1 /\ DepthIn(r, n + 1) = m - 1 /\ DepthIn(s, n) = m
  BY <1>1, <1>2, <1>4, DepthAfter, AppendIndex DEF Nested
<1>6. m >= 1 /\ Len(w) = m - 1 /\ \A k \in 1 .. m - 1 : w[k] <=> q[k]
  BY <1>1
<1>7. \A i \in EnclosingIn(s) : DepthIn(s, i) \in 1 .. m
  BY <1>1 DEF Nested
<1>8. PICK g \in EnclosingIn(s) : DepthIn(s, g) = m
  <2>1. m \in 1 .. Len(q)
    BY <1>1, <1>6
  <2> QED BY <2>1 DEF Nested
<1>9. EnclosingIn(r) = EnclosingIn(s) \ {g}
  <2>1. \A i \in EnclosingIn(s) : DepthIn(s, i) <= DepthIn(s, n) + (-1) <=> i # g
    <3>1. \A i \in EnclosingIn(s) : DepthIn(s, i) = m <=> i = g
      BY <1>8 DEF Nested
    <3> QED BY <1>5, <1>7, <3>1
  <2>2. EnclosingIn(r) = {i \in EnclosingIn(s) : DepthIn(s, i) <= DepthIn(s, n) + (-1)}
    BY <1>1, <1>2, <1>4, EnclosingAfter
  <2> QED BY <2>1, <2>2
<1>10. \A i \in EnclosingIn(s) : i \in 1 .. n /\ i \in 0 .. n
  BY <1>1, EnclosingFinite
<1>11. \A i \in EnclosingIn(s) : DepthIn(r, i) = DepthIn(s, i)
  BY <1>1, <1>2, <1>10, DepthBefore
<1>12. \A i \in EnclosingIn(r) : DepthIn(s, i) \in 1 .. m - 1
  <2>1. \A i \in EnclosingIn(r) : i \in EnclosingIn(s) /\ DepthIn(s, i) # m
    BY <1>8, <1>9 DEF Nested
  <2> QED BY <1>7, <2>1
<1>13. \A i \in EnclosingIn(r) : ElsesIn(r, i) = ElsesIn(s, i) /\ (u[i] <=> t[i])
  <2>1. \A i \in EnclosingIn(s) : ElsesIn(r, i) = ElsesIn(s, i)
    BY <1>1, <1>2, <1>4, <1>10, ElsesKept
  <2>2. \A i \in EnclosingIn(s) : u[i] <=> t[i]
    BY <1>1, <1>3, <1>10
  <2> QED BY <1>9, <2>1, <2>2
<1>14. \A i \in EnclosingIn(r) : w[DepthIn(r, i)] <=> Entry(r, u, i)
  <2>1. \A i \in EnclosingIn(r) : Entry(r, u, i) <=> Entry(s, t, i)
    BY <1>13 DEF Entry
  <2>2. \A i \in EnclosingIn(r) : w[DepthIn(r, i)] <=> q[DepthIn(s, i)]
    BY <1>6, <1>9, <1>11, <1>12
  <2> QED BY <1>9, <2>1, <2>2 DEF Nested
<1>15. Cardinality(EnclosingIn(r)) = m - 1
  <2>1. Cardinality(EnclosingIn(s)) = m /\ IsFiniteSet(EnclosingIn(s))
    BY <1>1, EnclosingFinite DEF Nested
  <2> QED BY <1>8, <1>9, <2>1, FS_RemoveElement
<1>16. \A i \in EnclosingIn(r) : DepthIn(r, i) \in 1 .. Len(w)
  BY <1>6, <1>9, <1>11, <1>12
<1>17. \A i, j \in EnclosingIn(r) : DepthIn(r, i) = DepthIn(r, j) => i = j
  BY <1>9, <1>11 DEF Nested
<1>18. \A k \in 1 .. Len(w) : \E i \in EnclosingIn(r) : DepthIn(r, i) = k
  <2> SUFFICES ASSUME NEW k \in 1 .. Len(w) PROVE \E i \in EnclosingIn(r) : DepthIn(r, i) = k
    OBVIOUS
  <2>1. k \in 1 .. Len(q) /\ k # m
    BY <1>1, <1>6
  <2>2. PICK i \in EnclosingIn(s) : DepthIn(s, i) = k
    BY <2>1 DEF Nested
  <2> QED BY <1>8, <1>9, <1>11, <2>1, <2>2
<1> QED BY <1>2, <1>3, <1>5, <1>6, <1>14, <1>15, <1>16, <1>17, <1>18 DEF Nested

LEMMA NestedRuns ==
  ASSUME NEW s, NEW t, NEW q, Nested(s, t, q)
  PROVE  AllRun(q) <=> \A i \in EnclosingIn(s) : Entry(s, t, i)
BY DEF Nested, AllRun

-----------------------------------------------------------------------------
(* The steps of the interpreter.                                           *)

ScriptTyped ==
  /\ script \in Seq(Instructions) /\ Len(script) <= MaxScript
  /\ taken \in Seq(BOOLEAN) /\ Len(taken) = Len(script)
  /\ stack \in Seq(Values) /\ altStack \in Seq(Values)
  /\ ifStack \in Seq(BOOLEAN) /\ executing \in BOOLEAN /\ success \in BOOLEAN

ScriptInv ==
  /\ ScriptTyped
  /\ success => Nested(script, taken, ifStack) /\ (executing <=> AllRun(ifStack))

LEMMA ScriptInvImplies == ScriptInv => ScriptTypeOK /\ RunsAsNested
<1> SUFFICES ASSUME ScriptInv PROVE ScriptTypeOK /\ RunsAsNested
  OBVIOUS
<1>1. ScriptTyped /\ script \in Seq(Instructions)
  BY DEF ScriptInv, ScriptTyped
<1>2. Enclosing = EnclosingIn(script) /\ \A i : ElsesOf(i) = ElsesIn(script, i)
  BY <1>1, TextOfScript
<1>3. success => Len(ifStack) = Cardinality(Enclosing)
  BY <1>2 DEF ScriptInv, Nested
<1>4. ASSUME success
      PROVE  executing <=> \A i \in Enclosing : taken[i] <=> Cardinality(ElsesOf(i)) % 2 = 0
  <2>1. executing <=> \A i \in EnclosingIn(script) : Entry(script, taken, i)
    BY <1>4, NestedRuns DEF ScriptInv
  <2> QED BY <1>2, <2>1 DEF Entry, Even
<1>5. ScriptTypeOK
  BY <1>1, <1>3 DEF ScriptTyped, ScriptTypeOK
<1> QED BY <1>4, <1>5 DEF RunsAsNested

LEMMA ScriptInvInit == ScriptInit => ScriptInv
<1> SUFFICES ASSUME ScriptInit PROVE ScriptInv
  OBVIOUS
<1>1. /\ script = <<>> /\ altStack = <<>> /\ ifStack = <<>> /\ taken = <<>>
      /\ stack \in Seq(Values)
  <2>1. /\ script = <<>> /\ altStack = <<>> /\ ifStack = <<>> /\ taken = <<>>
        /\ stack \in InitialStacks
    BY DEF ScriptInit
  <2>2. stack \in Seq([name : STRING, hashed : Nat])
    BY <2>1, ScriptAssumption
  <2>3. \A i \in 1 .. Len(stack) : stack[i] \in Values
    <3> SUFFICES ASSUME NEW i \in 1 .. Len(stack) PROVE stack[i] \in Values
      OBVIOUS
    <3>1. stack[i].name \in Names
      <4>1. stack[i].name \in {stack[k].name : k \in 1 .. Len(stack)}
        OBVIOUS
      <4>2. {stack[k].name : k \in 1 .. Len(stack)}
              \in {{s[k].name : k \in 1 .. Len(s)} : s \in InitialStacks}
        BY <2>1
      <4> QED BY <4>1, <4>2, Zenon DEF Names
    <3>2. PICK V : V = [name : STRING, hashed : Nat]
      OBVIOUS
    <3>3. stack[i] \in V
      <4>1. stack \in Seq(V)
        BY <2>2, <3>2, Zenon
      <4> QED BY <4>1
    <3> QED BY <3>1, <3>2, <3>3 DEF Values
  <2> QED BY <2>1, <2>2, <2>3
<1>2. executing = TRUE /\ success = TRUE
  BY DEF ScriptInit
<1>3. ScriptTyped
  <2>1. executing \in BOOLEAN /\ success \in BOOLEAN
    BY <1>2, Zenon
  <2> QED BY <1>1, <2>1, ScriptAssumption DEF ScriptTyped
<1>4. EnclosingIn(<<>>) = {} /\ DepthIn(<<>>, 0) = 0
  <2>1. EnclosingIn(<<>>) = {} /\ Openings(<<>>, 0) = {} /\ Closings(<<>>, 0) = {}
    BY DEF EnclosingIn, Openings, Closings
  <2>2. Cardinality({}) = 0
    BY FS_EmptySet
  <2>3. DepthIn(<<>>, 0) = 0 - 0
    BY <2>1, <2>2 DEF DepthIn
  <2> QED BY <2>1, <2>3
<1>5. Nested(script, taken, ifStack)
  <2>1. Cardinality({}) = 0 /\ Len(<<>>) = 0
    BY FS_EmptySet
  <2>2. 1 .. Len(<<>>) = {}
    BY <2>1
  <2>3. Nested(<<>>, <<>>, <<>>)
    BY <1>4, <2>1, <2>2, Zenon DEF Nested
  <2> QED BY <1>1, <2>3, Zenon
<1>6. AllRun(ifStack)
  BY <1>1 DEF AllRun
<1> QED BY <1>2, <1>3, <1>5, <1>6, Zenon DEF ScriptInv

\* The stacks hold values before and after an opcode.
LEMMA WorksOnValues ==
  ASSUME ScriptTyped, NEW inst \in Instructions, Execute(inst)
  PROVE  stack' \in Seq(Values) /\ altStack' \in Seq(Values)
<1>1. stack \in Seq(Values) /\ altStack \in Seq(Values)
  BY DEF ScriptTyped
<1>2. inst.data \in Names /\ "" \in Names /\ "01" \in Names
  BY Zenon DEF Names
<1>3. \A name \in Names : Bytes(name) \in Values
  BY DEF Bytes, Values
<1>4. \A v \in Values : Sha256(v) \in Values
  BY DEF Sha256, Values
<1>5. ASSUME NEW n \in Nat, n <= Len(stack) PROVE Popped(n) \in Seq(Values)
  BY <1>1, <1>5 DEF Popped
<1>6. ASSUME NEW n \in Nat, n >= 1, n <= Len(stack) PROVE Top(n) \in Values
  BY <1>1, <1>6 DEF Top
<1>7. ~(Len(stack) < Needs(inst.op)) /\ ~(inst.op = "FROMALTSTACK" /\ altStack = <<>>)
  BY DEF Execute, Fails
<1>8. inst.op \in {"SWAP", "EQUAL", "EQUALVERIFY", "CHECKSIG", "CHECKSIGVERIFY"} => Len(stack) >= 2
  BY <1>1, <1>7 DEF Needs
<1>9. inst.op \in {"DROP", "DUP", "VERIFY", "SHA256", "TOALTSTACK"} => Len(stack) >= 1
  BY <1>1, <1>7 DEF Needs
<1>10. \A v \in Values : Append(stack, v) \in Seq(Values)
  BY <1>1
<1>11. CASE inst.op = "PUSH" /\ stack' = Append(stack, Bytes(inst.data)) /\ altStack' = altStack
  BY <1>1, <1>2, <1>3, <1>10, <1>11
<1>12. CASE inst.op = "0" /\ stack' = Append(stack, Bytes("")) /\ altStack' = altStack
  BY <1>1, <1>2, <1>3, <1>10, <1>12, Zenon
<1>13. CASE inst.op = "1" /\ stack' = Append(stack, Bytes("01")) /\ altStack' = altStack
  BY <1>1, <1>2, <1>3, <1>10, <1>13, Zenon
<1>14. CASE inst.op = "NOP" /\ stack' = stack /\ altStack' = altStack
  BY <1>1, <1>14
<1>15. CASE inst.op \in {"DROP", "VERIFY"} /\ stack' = Popped(1) /\ altStack' = altStack
  BY <1>1, <1>5, <1>9, <1>15
<1>16. CASE inst.op = "DUP" /\ stack' = Append(stack, Top(1)) /\ altStack' = altStack
  BY <1>1, <1>6, <1>9, <1>10, <1>16
<1>17. CASE inst.op = "SWAP" /\ stack' = Popped(2) \o <<Top(1), Top(2)>> /\ altStack' = altStack
  <2>1. Popped(2) \in Seq(Values) /\ Top(1) \in Values /\ Top(2) \in Values
    BY <1>1, <1>5, <1>6, <1>8, <1>17
  <2>2. <<Top(1), Top(2)>> \in Seq(Values)
    BY <2>1
  <2> QED BY <1>1, <1>17, <2>1, <2>2
<1>18. CASE /\ inst.op = "EQUAL" /\ altStack' = altStack
            /\ stack' = Append(Popped(2), Bytes(IF Top(1) = Top(2) THEN "01" ELSE ""))
  <2>1. Popped(2) \in Seq(Values)
    BY <1>1, <1>5, <1>8, <1>18
  <2>2. Bytes(IF Top(1) = Top(2) THEN "01" ELSE "") \in Values
    <3>1. (IF Top(1) = Top(2) THEN "01" ELSE "") \in Names
      BY <1>2, Zenon
    <3> QED BY <1>3, <3>1, Zenon
  <2>3. \A q \in Seq(Values), v \in Values : Append(q, v) \in Seq(Values)
    OBVIOUS
  <2> QED BY <1>1, <1>18, <2>1, <2>2, <2>3, Zenon
<1>19. CASE inst.op = "SHA256" /\ stack' = Append(Popped(1), Sha256(Top(1))) /\ altStack' = altStack
  <2>1. Popped(1) \in Seq(Values) /\ Sha256(Top(1)) \in Values
    BY <1>1, <1>4, <1>5, <1>6, <1>9, <1>19
  <2> QED BY <1>1, <1>19, <2>1
<1>20. CASE inst.op = "CHECKSIG" /\ stack' = Append(Popped(2), Bytes("")) /\ altStack' = altStack
  <2>1. Popped(2) \in Seq(Values)
    BY <1>1, <1>5, <1>8, <1>20
  <2>2. Bytes("") \in Values
    BY <1>2, <1>3, Zenon
  <2>3. \A q \in Seq(Values), v \in Values : Append(q, v) \in Seq(Values)
    OBVIOUS
  <2> QED BY <1>1, <1>20, <2>1, <2>2, <2>3, Zenon
<1>21. CASE inst.op \in {"EQUALVERIFY", "CHECKSIGVERIFY"} /\ stack' = Popped(2) /\ altStack' = altStack
  BY <1>1, <1>5, <1>8, <1>21
<1>22. CASE inst.op = "TOALTSTACK" /\ stack' = Popped(1) /\ altStack' = Append(altStack, Top(1))
  <2>1. Popped(1) \in Seq(Values) /\ Top(1) \in Values
    BY <1>1, <1>5, <1>6, <1>9, <1>22
  <2> QED BY <1>1, <1>22, <2>1
<1>23. CASE /\ inst.op = "FROMALTSTACK"
            /\ stack' = Append(stack, Last(altStack)) /\ altStack' = Front(altStack)
  <2>1. altStack # <<>>
    BY <1>7, <1>23
  <2>2. Last(altStack) \in Values
    BY <1>1, <2>1 DEF Last
  <2>3. Front(altStack) \in Seq(Values)
    BY <1>1, <2>1 DEF Front
  <2> QED BY <1>10, <1>23, <2>2, <2>3
<1>24. Works(inst)
  BY DEF Execute
<1> QED BY <1>11, <1>12, <1>13, <1>14, <1>15, <1>16, <1>17, <1>18, <1>19, <1>20, <1>21, <1>22,
           <1>23, <1>24, ZenonT(60) DEF Works

LEMMA AppendTaken ==
  ASSUME ScriptTyped, success, Len(script) < MaxScript, NEW inst \in Instructions,
         script' = Append(script, inst), NEW b \in BOOLEAN, taken' = Append(taken, b)
  PROVE  /\ script' \in Seq(Instructions) /\ Len(script') <= MaxScript
         /\ taken' \in Seq(BOOLEAN) /\ Len(taken') = Len(script')
BY ScriptAssumption DEF ScriptTyped

\* What ELSE and ENDIF do to if_stack.
LEMMA FrontElements ==
  ASSUME NEW q \in Seq(BOOLEAN), q # <<>>
  PROVE  /\ Front(q) \in Seq(BOOLEAN) /\ Len(Front(q)) = Len(q) - 1
         /\ \A k \in 1 .. Len(q) - 1 : Front(q)[k] <=> q[k]
         /\ Last(q) \in BOOLEAN /\ (Last(q) <=> q[Len(q)])
<1>1. PICK n \in Nat : n = Len(q) /\ n >= 1
  OBVIOUS
<1>2. Front(q) = SubSeq(q, 1, n - 1)
  BY <1>1 DEF Front
<1>3. /\ SubSeq(q, 1, n - 1) \in Seq(BOOLEAN) /\ Len(SubSeq(q, 1, n - 1)) = n - 1
      /\ \A k \in 1 .. n - 1 : SubSeq(q, 1, n - 1)[k] = q[k]
  BY <1>1
<1>4. Last(q) = q[n] /\ q[n] \in BOOLEAN
  BY <1>1 DEF Last
<1> QED BY <1>1, <1>2, <1>3, <1>4

\* What every step finds.
StepOf(inst) ==
  /\ ScriptInv /\ success /\ Len(script) < MaxScript /\ script' = Append(script, inst)

LEMMA StepFinds ==
  ASSUME NEW inst \in Instructions, StepOf(inst)
  PROVE  /\ ScriptTyped /\ success /\ success \in BOOLEAN
         /\ Nested(script, taken, ifStack) /\ (executing <=> AllRun(ifStack))
         /\ script \in Seq(Instructions) /\ taken \in Seq(BOOLEAN) /\ Len(taken) = Len(script)
         /\ ifStack \in Seq(BOOLEAN) /\ stack \in Seq(Values) /\ altStack \in Seq(Values)
BY Zenon DEF StepOf, ScriptInv, ScriptTyped

\* An IF pushes what it found, and executing is that.
LEMMA OpIfKeeps ==
  ASSUME NEW inst \in Instructions, StepOf(inst), OpIf(inst)
  PROVE  ScriptInv'
<1>1. PICK b \in BOOLEAN : b = (executing /\ (IsTrue(Last(stack)) <=> inst.op = "IF"))
  BY Zenon
<1>2. /\ inst.op \in {"IF", "NOTIF"} /\ (executing => stack # <<>>)
      /\ ifStack' = Append(ifStack, b) /\ executing' = b /\ taken' = Append(taken, b)
      /\ stack' = (IF executing THEN Front(stack) ELSE stack)
      /\ altStack' = altStack /\ success' = success
  BY <1>1, Zenon DEF OpIf
<1>3. /\ ScriptTyped /\ success /\ success \in BOOLEAN
      /\ Nested(script, taken, ifStack) /\ (executing <=> AllRun(ifStack))
      /\ script \in Seq(Instructions) /\ taken \in Seq(BOOLEAN) /\ Len(taken) = Len(script)
      /\ ifStack \in Seq(BOOLEAN) /\ stack \in Seq(Values) /\ altStack \in Seq(Values)
  BY StepFinds
<1>4. script' = Append(script, inst) /\ Len(script) < MaxScript
  BY DEF StepOf
<1>5. /\ script' \in Seq(Instructions) /\ Len(script') <= MaxScript
      /\ taken' \in Seq(BOOLEAN) /\ Len(taken') = Len(script')
  BY <1>2, <1>3, <1>4, AppendTaken
<1>6. stack' \in Seq(Values)
  <2>1. stack # <<>> => Front(stack) \in Seq(Values)
    BY <1>3 DEF Front
  <2> QED BY <1>2, <1>3, <2>1, Zenon
<1>7. ifStack' \in Seq(BOOLEAN)
  BY <1>2, <1>3
<1>8. ScriptTyped'
  BY <1>2, <1>3, <1>5, <1>6, <1>7, Zenon DEF ScriptTyped
<1>9. Nested(script', taken', ifStack')
  <2>1. Nested(Append(script, inst), Append(taken, b), Append(ifStack, b))
    BY <1>2, <1>3, NestedIf
  <2> QED BY <1>2, <1>4, <2>1, Zenon
<1>10. AllRun(Append(ifStack, b)) <=> b /\ AllRun(ifStack)
  <2>1. PICK m \in Nat : m = Len(ifStack)
    BY <1>3
  <2>2. /\ Len(Append(ifStack, b)) = m + 1 /\ Append(ifStack, b)[m + 1] = b
        /\ \A k \in 1 .. m : Append(ifStack, b)[k] = ifStack[k]
    BY <1>3, <2>1
  <2>3. \A k : k \in 1 .. m + 1 <=> k \in 1 .. m \/ k = m + 1
    OBVIOUS
  <2> QED BY <2>1, <2>2, <2>3, Zenon DEF AllRun
<1>11. executing' <=> AllRun(ifStack')
  BY <1>1, <1>2, <1>3, <1>10, Zenon
<1> QED BY <1>8, <1>9, <1>11, Zenon DEF ScriptInv

\* ELSE and ENDIF recompute executing from all of if_stack.
LEMMA OpElseKeeps ==
  ASSUME NEW inst \in Instructions, StepOf(inst), OpElse(inst)
  PROVE  ScriptInv'
<1>1. /\ inst.op = "ELSE" /\ ifStack # <<>>
      /\ ifStack' = Append(Front(ifStack), ~Last(ifStack))
      /\ taken' = Append(taken, FALSE)
      /\ stack' = stack /\ altStack' = altStack /\ success' = success
  BY Zenon DEF OpElse
<1>2. executing' = \A i \in DOMAIN ifStack' : ifStack'[i]
  BY Zenon DEF OpElse
<1>3. /\ ScriptTyped /\ success /\ success \in BOOLEAN
      /\ Nested(script, taken, ifStack) /\ (executing <=> AllRun(ifStack))
      /\ script \in Seq(Instructions) /\ taken \in Seq(BOOLEAN) /\ Len(taken) = Len(script)
      /\ ifStack \in Seq(BOOLEAN) /\ stack \in Seq(Values) /\ altStack \in Seq(Values)
  BY StepFinds
<1>4. script' = Append(script, inst) /\ Len(script) < MaxScript
  BY DEF StepOf
<1>5. /\ script' \in Seq(Instructions) /\ Len(script') <= MaxScript
      /\ taken' \in Seq(BOOLEAN) /\ Len(taken') = Len(script')
  BY <1>1, <1>3, <1>4, AppendTaken
<1>6. PICK f \in Seq(BOOLEAN), b \in BOOLEAN : f = Front(ifStack) /\ b = ~Last(ifStack)
  BY <1>1, <1>3, FrontElements, Zenon
<1>7. /\ Len(f) = Len(ifStack) - 1 /\ \A k \in 1 .. Len(ifStack) - 1 : f[k] <=> ifStack[k]
      /\ (b <=> ~ifStack[Len(ifStack)])
  BY <1>1, <1>3, <1>6, FrontElements
<1>8. PICK m \in Nat : m = Len(ifStack) /\ m >= 1
  BY <1>1, <1>3
<1>9. PICK w : w = Append(f, b)
  OBVIOUS
<1>10. /\ w \in Seq(BOOLEAN) /\ Len(w) = m /\ (w[m] <=> b) /\ \A k \in 1 .. m - 1 : w[k] <=> f[k]
  BY <1>6, <1>7, <1>8, <1>9
<1>11. ifStack' = w
  BY <1>1, <1>6, <1>9, Zenon
<1>12. Nested(script', taken', w)
  <2>1. /\ Len(w) = Len(ifStack) /\ (w[Len(ifStack)] <=> ~ifStack[Len(ifStack)])
        /\ \A k \in 1 .. Len(ifStack) - 1 : w[k] <=> ifStack[k]
    BY <1>7, <1>8, <1>10
  <2>2. Nested(Append(script, inst), Append(taken, FALSE), w)
    BY <1>1, <1>3, <1>10, <2>1, NestedElse
  <2> QED BY <1>1, <1>4, <2>2, Zenon
<1>13. DOMAIN w = 1 .. Len(w)
  BY <1>10
<1>14. executing' \in BOOLEAN /\ (executing' <=> AllRun(w))
  BY <1>2, <1>11, <1>13, Zenon DEF AllRun
<1>15. ScriptTyped'
  BY <1>1, <1>3, <1>5, <1>10, <1>11, <1>14, Zenon DEF ScriptTyped
<1> QED BY <1>11, <1>12, <1>14, <1>15, Zenon DEF ScriptInv

LEMMA OpEndIfKeeps ==
  ASSUME NEW inst \in Instructions, StepOf(inst), OpEndIf(inst)
  PROVE  ScriptInv'
<1>1. /\ inst.op = "ENDIF" /\ ifStack # <<>>
      /\ ifStack' = Front(ifStack) /\ taken' = Append(taken, FALSE)
      /\ stack' = stack /\ altStack' = altStack /\ success' = success
  BY Zenon DEF OpEndIf
<1>2. executing' = \A i \in DOMAIN ifStack' : ifStack'[i]
  BY Zenon DEF OpEndIf
<1>3. /\ ScriptTyped /\ success /\ success \in BOOLEAN
      /\ Nested(script, taken, ifStack) /\ (executing <=> AllRun(ifStack))
      /\ script \in Seq(Instructions) /\ taken \in Seq(BOOLEAN) /\ Len(taken) = Len(script)
      /\ ifStack \in Seq(BOOLEAN) /\ stack \in Seq(Values) /\ altStack \in Seq(Values)
  BY StepFinds
<1>4. script' = Append(script, inst) /\ Len(script) < MaxScript
  BY DEF StepOf
<1>5. /\ script' \in Seq(Instructions) /\ Len(script') <= MaxScript
      /\ taken' \in Seq(BOOLEAN) /\ Len(taken') = Len(script')
  BY <1>1, <1>3, <1>4, AppendTaken
<1>6. PICK w \in Seq(BOOLEAN) : w = Front(ifStack)
  BY <1>1, <1>3, FrontElements, Zenon
<1>7. Len(w) = Len(ifStack) - 1 /\ \A k \in 1 .. Len(ifStack) - 1 : w[k] <=> ifStack[k]
  BY <1>1, <1>3, <1>6, FrontElements
<1>8. ifStack' = w
  BY <1>1, <1>6, Zenon
<1>9. Nested(script', taken', w)
  <2>1. Nested(Append(script, inst), Append(taken, FALSE), w)
    BY <1>1, <1>3, <1>6, <1>7, NestedEndIf
  <2> QED BY <1>1, <1>4, <2>1, Zenon
<1>10. DOMAIN w = 1 .. Len(w)
  BY <1>6
<1>11. executing' \in BOOLEAN /\ (executing' <=> AllRun(w))
  BY <1>2, <1>8, <1>10, Zenon DEF AllRun
<1>12. ScriptTyped'
  BY <1>1, <1>3, <1>5, <1>6, <1>8, <1>11, Zenon DEF ScriptTyped
<1> QED BY <1>8, <1>9, <1>11, <1>12, Zenon DEF ScriptInv

\* The other instructions leave if_stack alone, and a failure ends the script.
LEMMA PlainStepKeeps ==
  ASSUME NEW inst \in Instructions, StepOf(inst), Fail(inst) \/ Execute(inst) \/ Skip(inst)
  PROVE  ScriptInv'
<1>1. /\ taken' = Append(taken, FALSE) /\ ifStack' = ifStack /\ executing' = executing
      /\ success' => inst.op \notin Branching
  BY Zenon DEF Fail, Execute, Skip
<1>2. /\ ScriptTyped /\ success /\ success \in BOOLEAN
      /\ Nested(script, taken, ifStack) /\ (executing <=> AllRun(ifStack))
      /\ script \in Seq(Instructions) /\ taken \in Seq(BOOLEAN) /\ Len(taken) = Len(script)
      /\ ifStack \in Seq(BOOLEAN) /\ stack \in Seq(Values) /\ altStack \in Seq(Values)
  BY StepFinds
<1>3. script' = Append(script, inst) /\ Len(script) < MaxScript
  BY DEF StepOf
<1>4. /\ script' \in Seq(Instructions) /\ Len(script') <= MaxScript
      /\ taken' \in Seq(BOOLEAN) /\ Len(taken') = Len(script')
  BY <1>1, <1>2, <1>3, AppendTaken
<1>5. success' \in BOOLEAN
  BY <1>2, Zenon DEF Fail, Execute, Skip
<1>6. stack' \in Seq(Values) /\ altStack' \in Seq(Values)
  <2>1. CASE Execute(inst)
    BY <1>2, <2>1, WorksOnValues
  <2>2. CASE Fail(inst) \/ Skip(inst)
    BY <1>2, <2>2, Zenon DEF Fail, Skip
  <2> QED BY <2>1, <2>2
<1>7. ScriptTyped'
  BY <1>1, <1>2, <1>4, <1>5, <1>6, Zenon DEF ScriptTyped
<1>8. ASSUME success' PROVE Nested(script', taken', ifStack')
  <2>1. inst.op \notin Branching
    BY <1>1, <1>8
  <2>2. Nested(Append(script, inst), Append(taken, FALSE), ifStack)
    BY <1>2, <2>1, NestedPlain
  <2> QED BY <1>1, <1>3, <2>2, Zenon
<1> QED BY <1>1, <1>2, <1>7, <1>8, Zenon DEF ScriptInv

LEMMA ScriptInvNext == ScriptInv /\ [ScriptNext]_scriptVars => ScriptInv'
<1> SUFFICES ASSUME ScriptInv, [ScriptNext]_scriptVars PROVE ScriptInv'
  OBVIOUS
<1>1. CASE UNCHANGED scriptVars
  <2>1. UNCHANGED <<script, stack, altStack, ifStack, executing, success, taken>>
    BY <1>1 DEF scriptVars
  <2> QED BY <2>1, Zenon DEF ScriptInv, ScriptTyped
<1>2. CASE ScriptNext
  <2>1. PICK inst \in Instructions : Step(inst)
    BY <1>2 DEF ScriptNext
  <2>2. StepOf(inst)
    BY <2>1 DEF Step, StepOf
  <2>3. CASE OpIf(inst)
    BY <2>2, <2>3, OpIfKeeps
  <2>4. CASE OpElse(inst)
    BY <2>2, <2>4, OpElseKeeps
  <2>5. CASE OpEndIf(inst)
    BY <2>2, <2>5, OpEndIfKeeps
  <2>6. CASE Fail(inst) \/ Execute(inst) \/ Skip(inst)
    BY <2>2, <2>6, PlainStepKeeps
  <2> QED BY <2>1, <2>3, <2>4, <2>5, <2>6 DEF Step
<1> QED BY <1>1, <1>2

\* However IFs, ELSEs and ENDIFs are nested and repeated, BitVMInterpreter executes an
\* instruction exactly when the text puts it in a branch that is taken, at every depth:
\* for scripts and stacks of any length.
THEOREM ScriptsRunAsNested == ScriptSpec => []RunsAsNested
<1>1. ScriptInv => RunsAsNested
  BY ScriptInvImplies
<1> QED BY <1>1, ScriptInvInit, ScriptInvNext, PTL DEF ScriptSpec

\* The interpreter's state is typed, and if_stack has one entry for each IF of the
\* script that is still open.
THEOREM ScriptTypeCorrect == ScriptSpec => []ScriptTypeOK
<1>1. ScriptInv => ScriptTypeOK
  BY ScriptInvImplies
<1> QED BY <1>1, ScriptInvInit, ScriptInvNext, PTL DEF ScriptSpec

=============================================================================
