--------------------------- MODULE TerminalProofs ---------------------------
(***************************************************************************)
(* The spin lock, for every set of cores: mutual exclusion.  The terminal  *)
(* under it, for every set of cores and interrupted cores, every set of    *)
(* macros and every screen: glyphs stay on the screen, escape sequences    *)
(* are not torn, the colour has an owner, and the lock is used as SpinLock *)
(* says.                                                                   *)
(***************************************************************************)
EXTENDS Terminal, TLAPS

USE SMTT(30), ZenonT(30), SMTT(60)

-----------------------------------------------------------------------------
(* The lock on its own.                                                    *)

VARIABLE at             \* where each core is in the protocol

Lock == INSTANCE SpinLock

(* The types of the flag and of the positions are kept by every step of    *)
(* lock(), try_lock() and unlock().                                        *)
THEOREM LockTypes == Lock!Spec => []Lock!TypeOK
<1>1. Lock!Init => Lock!TypeOK
  BY ZenonT(60) DEF Lock!Init, Lock!TypeOK
<1>2. Lock!TypeOK /\ [Lock!Next]_(Lock!vars) => Lock!TypeOK'
  BY ZenonT(60) DEF Lock!TypeOK, Lock!Next, Lock!vars, Lock!Lock, Lock!try_lock, Lock!unlock, Lock!Panic
<1> QED
  BY <1>1, <1>2, PTL DEF Lock!Spec

(* One swap(true) is enough: whatever cores call lock(), and whether they  *)
(* drop the guard or panic with it, at most one of them is inside, and the *)
(* flag is set exactly while one is.                                       *)
THEOREM Exclusive == Lock!Spec => []Lock!MutualExclusion
<1>1. Lock!Init => Lock!MutualExclusion
  BY DEF Lock!Init, Lock!MutualExclusion, Lock!Inside
<1>2. Lock!TypeOK /\ Lock!MutualExclusion /\ [Lock!Next]_(Lock!vars) => Lock!MutualExclusion'
  <2> SUFFICES ASSUME Lock!TypeOK, Lock!MutualExclusion, [Lock!Next]_(Lock!vars)
               PROVE  Lock!MutualExclusion'
    OBVIOUS
  <2>1. ASSUME NEW c \in Cores, Lock!Lock(c)
        PROVE  Lock!MutualExclusion'
    <3>1. \A d \in Cores : Lock!Inside(d)' <=> Lock!Inside(d)
      BY <2>1 DEF Lock!Lock, Lock!TypeOK, Lock!Inside
    <3> QED
      BY <2>1, <3>1 DEF Lock!Lock, Lock!MutualExclusion
  <2>2. ASSUME NEW c \in Cores, Lock!try_lock(c)
        PROVE  Lock!MutualExclusion'
    <3>1. CASE locked
      BY <2>2, <3>1 DEF Lock!try_lock, Lock!MutualExclusion, Lock!Inside
    <3>2. CASE ~ locked
      <4>1. \A d \in Cores : Lock!Inside(d)' <=> d = c
        BY <2>2, <3>2 DEF Lock!try_lock, Lock!TypeOK, Lock!MutualExclusion, Lock!Inside
      <4> QED
        BY <2>2, <4>1 DEF Lock!try_lock, Lock!MutualExclusion
    <3> QED
      BY <3>1, <3>2
  <2>3. ASSUME NEW c \in Cores, Lock!unlock(c)
        PROVE  Lock!MutualExclusion'
    <3>1. \A d \in Cores : ~ Lock!Inside(d)'
      BY <2>3 DEF Lock!unlock, Lock!TypeOK, Lock!MutualExclusion, Lock!Inside
    <3> QED
      BY <2>3, <3>1 DEF Lock!unlock, Lock!MutualExclusion
  <2>4. ASSUME NEW c \in Cores, Lock!Panic(c)
        PROVE  Lock!MutualExclusion'
    <3>1. \A d \in Cores : Lock!Inside(d)' <=> Lock!Inside(d)
      BY <2>4 DEF Lock!Panic, Lock!TypeOK, Lock!Inside
    <3> QED
      BY <2>4, <3>1 DEF Lock!Panic, Lock!MutualExclusion
  <2>5. CASE UNCHANGED Lock!vars
    BY <2>5 DEF Lock!vars, Lock!MutualExclusion, Lock!Inside
  <2> QED
    BY <2>1, <2>2, <2>3, <2>4, <2>5 DEF Lock!Next
<1> QED
  BY <1>1, <1>2, LockTypes, PTL DEF Lock!Spec

-----------------------------------------------------------------------------
(* The state of the terminal.                                              *)

(* A character, or a component of a colour. *)
Byte == 0 .. 255

(* The types of the terminal's fields and of the calls in progress. *)
TypeOK ==
  /\ locked \in BOOLEAN
  /\ cursor_x \in Nat /\ cursor_y \in Nat
  /\ color \in Byte \X Byte \X Byte
  /\ mode \in {"Print", "SetR", "SetG", "SetB"}
  /\ pc \in [Contexts -> {"idle", "line", "lock", "print", "panicked"}]
  /\ macro \in [Contexts -> Macros \cup {"none", "clear", "panic", "warning"}]
  /\ pieces \in [Contexts -> Seq(Seq(Byte))]
  /\ text \in [Contexts -> Seq(Byte)]

-----------------------------------------------------------------------------
(* What a log line is made of.                                             *)

(* The three bytes behind the n-th. *)
Bytes(s, n) == <<s[n + 1], s[n + 2], s[n + 3]>>

(* Every escape character has its colour behind it: the macro's, or white. *)
Whole(m, s) ==
  \A n \in 1 .. Len(s) :
    s[n] = ESC => n + 3 <= Len(s) /\ Bytes(s, n) \in {Color(m), White}

(* The string switches to white, *)
Resets(s) == \E n \in 1 .. Len(s) : s[n] = ESC /\ n + 3 <= Len(s) /\ Bytes(s, n) = White

(* or to another colour. *)
Colors(s) == \E n \in 1 .. Len(s) : s[n] = ESC /\ Bytes(s, n) # White

(* One of the strings switches to white. *)
Ends(line) == \E k \in 1 .. Len(line) : Resets(line[k])

(* Strings are whole, and behind one that sets a colour another resets it. *)
LineOK(m, line) ==
  \A k \in 1 .. Len(line) :
    /\ Whole(m, line[k])
    /\ Colors(line[k]) => \E j \in (k + 1) .. Len(line) : Resets(line[j])

(* Colours are bytes, and none of them is an escape character. *)
LEMMA ColorTypes ==
  ASSUME NEW m
  PROVE  /\ Color(m) \in Byte \X Byte \X Byte
         /\ \A n \in 1 .. 3 : Color(m)[n] # ESC
BY DEF Color, Tag, White, Byte, ESC

(* Colours and single characters as strings. *)
LEMMA Strings ==
  ASSUME NEW c \in Byte \X Byte \X Byte
  PROVE  /\ c \in Seq(Byte) /\ Len(c) = 3
         /\ White \in Byte \X Byte \X Byte
         /\ <<ESC>> \in Seq(Byte) /\ <<TEXT>> \in Seq(Byte) /\ <<NEW_LINE>> \in Seq(Byte)
<1>1. c = <<c[1], c[2], c[3]>> /\ c[1] \in Byte /\ c[2] \in Byte /\ c[3] \in Byte
  OBVIOUS
<1>2. <<c[1], c[2], c[3]>> \in Seq(Byte) /\ Len(<<c[1], c[2], c[3]>>) = 3
  BY <1>1
<1>3. c \in Seq(Byte) /\ Len(c) = 3
  BY ZenonT(60), <1>1, <1>2
<1>4. White \in Byte \X Byte \X Byte
  BY DEF Byte, White
<1>5. <<ESC>> \in Seq(Byte) /\ <<TEXT>> \in Seq(Byte) /\ <<NEW_LINE>> \in Seq(Byte)
  BY DEF Byte, ESC, TEXT, NEW_LINE
<1> QED BY <1>3, <1>4, <1>5

(* Bytes that are no escape character are whole and change no colour. *)
LEMMA PlainIsWhole ==
  ASSUME NEW m
  PROVE  /\ Whole(m, <<TEXT>>) /\ ~ Colors(<<TEXT>>)
         /\ Whole(m, <<NEW_LINE>>) /\ ~ Colors(<<NEW_LINE>>)
BY DEF Whole, Colors, TEXT, NEW_LINE, ESC

(* Concatenation. *)
LEMMA Join ==
  ASSUME NEW a \in Seq(Byte), NEW b \in Seq(Byte)
  PROVE  /\ a \o b \in Seq(Byte) /\ Len(a \o b) = Len(a) + Len(b)
         /\ \A n \in 1 .. Len(a) : (a \o b)[n] = a[n]
         /\ \A n \in 1 .. Len(b) : (a \o b)[Len(a) + n] = b[n]
OBVIOUS

(* An escape character with the macro's colour or white behind it. *)
LEMMA EscapeIsWhole ==
  ASSUME NEW m, NEW c \in {Color(m), White}
  PROVE  /\ <<ESC>> \o c \in Seq(Byte)
         /\ Whole(m, <<ESC>> \o c)
         /\ c = White => Resets(<<ESC>> \o c) /\ ~ Colors(<<ESC>> \o c)
<1> DEFINE s == <<ESC>> \o c
<1>1. c \in Byte \X Byte \X Byte /\ (\A n \in 1 .. 3 : c[n] # ESC)
  BY ColorTypes DEF White, Byte, ESC
<1>2. s \in Seq(Byte) /\ Len(s) = 4 /\ s[1] = ESC /\ s[2] = c[1] /\ s[3] = c[2] /\ s[4] = c[3]
  <2> DEFINE e == <<ESC>>
  <2>1. e \in Seq(Byte) /\ Len(e) = 1 /\ e[1] = ESC /\ c \in Seq(Byte) /\ Len(c) = 3
    BY <1>1, Strings
  <2>2. s = e \o c
    OBVIOUS
  <2> HIDE DEF e, s
  <2>3. /\ s \in Seq(Byte) /\ Len(s) = Len(e) + Len(c)
        /\ \A n \in 1 .. Len(e) : s[n] = e[n]
        /\ \A n \in 1 .. Len(c) : s[Len(e) + n] = c[n]
    BY ZenonT(60), <2>1, <2>2, Join
  <2>4. s[1] = e[1] /\ s[1 + 1] = c[1] /\ s[1 + 2] = c[2] /\ s[1 + 3] = c[3]
    BY <2>1, <2>3
  <2> QED BY <2>1, <2>3, <2>4
<1>3. \A n \in 1 .. Len(s) : s[n] = ESC => n = 1
  BY <1>1, <1>2
<1>4. Bytes(s, 1) = c
  BY <1>1, <1>2 DEF Bytes
<1> HIDE DEF s
<1> QED
  BY <1>2, <1>3, <1>4 DEF Whole, Resets, Colors, s

(* One string behind another keeps what is said of both. *)
LEMMA JoinIsWhole ==
  ASSUME NEW m, NEW a \in Seq(Byte), NEW b \in Seq(Byte), Whole(m, a), Whole(m, b)
  PROVE  /\ a \o b \in Seq(Byte)
         /\ Whole(m, a \o b)
         /\ Resets(a) \/ Resets(b) => Resets(a \o b)
         /\ ~ Colors(a) /\ ~ Colors(b) => ~ Colors(a \o b)
<1> DEFINE s == a \o b
<1>1. s \in Seq(Byte) /\ Len(s) = Len(a) + Len(b)
  BY Join
<1>2. \A n \in 1 .. Len(a) : s[n] = a[n]
  BY Join
<1>3. \A n \in 1 .. Len(b) : s[Len(a) + n] = b[n]
  BY Join
<1> HIDE DEF s
<1>4. ASSUME NEW n \in 1 .. Len(a), n + 3 <= Len(a)
      PROVE  Bytes(s, n) = Bytes(a, n)
  BY <1>2, <1>4 DEF Bytes
<1>5. ASSUME NEW n \in 1 .. Len(b), n + 3 <= Len(b)
      PROVE  Bytes(s, Len(a) + n) = Bytes(b, n)
  <2>1. Len(a) \in Nat /\ Len(b) \in Nat
    OBVIOUS
  <2>2. s[Len(a) + (n + 1)] = b[n + 1] /\ s[Len(a) + (n + 2)] = b[n + 2] /\ s[Len(a) + (n + 3)] = b[n + 3]
    BY <1>3, <1>5, <2>1
  <2> QED BY <2>1, <2>2 DEF Bytes
<1>6. ASSUME NEW n \in 1 .. Len(s), s[n] = ESC
      PROVE  /\ n + 3 <= Len(s)
             /\ Bytes(s, n) \in {Color(m), White}
             /\ ~ Colors(a) /\ ~ Colors(b) => Bytes(s, n) = White
  <2>1. CASE n \in 1 .. Len(a)
    BY <1>1, <1>2, <1>4, <1>6, <2>1 DEF Whole, Colors
  <2>2. CASE n \notin 1 .. Len(a)
    <3> DEFINE k == n - Len(a)
    <3>1. k \in 1 .. Len(b) /\ n = Len(a) + k /\ b[k] = ESC
      BY <1>1, <1>3, <1>6, <2>2
    <3>2. k + 3 <= Len(b) /\ Bytes(b, k) \in {Color(m), White}
      BY <3>1 DEF Whole
    <3>3. Bytes(s, n) = Bytes(b, k)
      BY <1>5, <3>1, <3>2
    <3> QED
      BY <1>1, <3>1, <3>2, <3>3 DEF Colors
  <2> QED BY <2>1, <2>2
<1>7. Resets(a) => Resets(s)
  <2> SUFFICES ASSUME Resets(a) PROVE Resets(s)
    OBVIOUS
  <2>1. PICK n \in 1 .. Len(a) : a[n] = ESC /\ n + 3 <= Len(a) /\ Bytes(a, n) = White
    BY DEF Resets
  <2> QED
    BY <1>1, <1>2, <1>4, <2>1 DEF Resets
<1>8. Resets(b) => Resets(s)
  <2> SUFFICES ASSUME Resets(b) PROVE Resets(s)
    OBVIOUS
  <2>1. PICK n \in 1 .. Len(b) : b[n] = ESC /\ n + 3 <= Len(b) /\ Bytes(b, n) = White
    BY DEF Resets
  <2>2. /\ Len(a) + n \in 1 .. Len(s) /\ s[Len(a) + n] = ESC /\ Len(a) + n + 3 <= Len(s)
        /\ Bytes(s, Len(a) + n) = White
    BY <1>1, <1>3, <1>5, <2>1
  <2> QED
    BY <2>2 DEF Resets
<1>9. Whole(m, s) /\ (~ Colors(a) /\ ~ Colors(b) => ~ Colors(s))
  BY <1>6 DEF Whole, Colors
<1> QED
  BY <1>1, <1>7, <1>8, <1>9 DEF s

(* Printing a character takes it away, and only an escape character        *)
(* matters for what is said of the rest.                                   *)
LEMMA RestIsWhole ==
  ASSUME NEW m, NEW s \in Seq(Byte), s # <<>>, Whole(m, s)
  PROVE  /\ Tail(s) \in Seq(Byte)
         /\ Whole(m, Tail(s))
         /\ Resets(s) /\ s[1] # ESC => Resets(Tail(s))
         /\ Colors(Tail(s)) => Colors(s)
<1> DEFINE r == Tail(s)
<1>1. /\ r \in Seq(Byte) /\ Len(s) \in Nat /\ Len(s) > 0 /\ Len(r) = Len(s) - 1
      /\ \A n \in 1 .. Len(r) : r[n] = s[n + 1]
  OBVIOUS
<1> HIDE DEF r
<1>2. ASSUME NEW n \in 1 .. Len(s), n + 3 <= Len(s), n # 1
      PROVE  n - 1 \in 1 .. Len(r) /\ r[n - 1] = s[n] /\ Bytes(r, n - 1) = Bytes(s, n)
  BY <1>1, <1>2 DEF Bytes
<1>3. ASSUME NEW n \in 1 .. Len(r), r[n] = ESC
      PROVE  /\ n + 1 \in 1 .. Len(s) /\ s[n + 1] = ESC /\ n + 1 + 3 <= Len(s)
             /\ Bytes(r, n) = Bytes(s, n + 1)
  <2>1. n + 1 \in 1 .. Len(s) /\ s[n + 1] = ESC
    BY <1>1, <1>3
  <2>2. n + 1 + 3 <= Len(s)
    BY <2>1 DEF Whole
  <2>3. r[n + 1] = s[n + 2] /\ r[n + 2] = s[n + 3] /\ r[n + 3] = s[n + 4]
    BY <1>1, <2>1, <2>2
  <2> QED
    BY <2>1, <2>2, <2>3 DEF Bytes
<1>4. Whole(m, r) /\ (Colors(r) => Colors(s))
  BY <1>1, <1>3 DEF Whole, Colors
<1>5. ASSUME Resets(s), s[1] # ESC PROVE Resets(r)
  <2>1. PICK n \in 1 .. Len(s) : s[n] = ESC /\ n + 3 <= Len(s) /\ Bytes(s, n) = White
    BY <1>5 DEF Resets
  <2>2. n - 1 \in 1 .. Len(r) /\ r[n - 1] = ESC /\ n - 1 + 3 <= Len(r) /\ Bytes(r, n - 1) = White
    BY <1>1, <1>2, <1>5, <2>1
  <2> QED
    BY <2>2 DEF Resets
<1> QED
  BY <1>1, <1>4, <1>5 DEF r

(* Every line of a macro is made of whole strings, and its colour is reset *)
(* behind the string that sets it.                                         *)
LEMMA LinesAreWhole ==
  ASSUME NEW m, NEW args
  PROVE  Line(m, args) \in Seq(Seq(Byte)) /\ LineOK(m, Line(m, args))
<1> DEFINE reset == <<ESC>> \o White
           tag == <<ESC>> \o Color(m) \o <<TEXT>>
           first == IF m = "info" THEN <<TEXT>> \o reset \o <<TEXT>> ELSE <<TEXT>>
           last == IF m = "info" THEN <<NEW_LINE>> ELSE reset \o <<NEW_LINE>>
           glyph == <<TEXT>>
           Good(s) == s \in Seq(Byte) /\ Whole(m, s)
<1>1. /\ Good(<<TEXT>>) /\ ~ Colors(<<TEXT>>)
      /\ Good(<<NEW_LINE>>) /\ ~ Colors(<<NEW_LINE>>)
  BY PlainIsWhole, Strings, ColorTypes
<1>2. Good(<<ESC>> \o Color(m))
  BY EscapeIsWhole
<1>3. Good(reset) /\ Resets(reset) /\ ~ Colors(reset)
  BY EscapeIsWhole
<1> HIDE DEF reset
<1>4. Good(tag)
  BY ZenonT(60), <1>1, <1>2, JoinIsWhole
<1>5. /\ Good(<<TEXT>> \o reset) /\ Resets(<<TEXT>> \o reset) /\ ~ Colors(<<TEXT>> \o reset)
  BY ZenonT(60), <1>1, <1>3, JoinIsWhole
<1>6. Good(first) /\ ~ Colors(first) /\ (m = "info" => Resets(first))
  BY ZenonT(60), <1>1, <1>5, JoinIsWhole
<1>7. Good(last) /\ ~ Colors(last) /\ (m # "info" => Resets(last))
  BY <1>1, <1>3, JoinIsWhole
<1>g. Good(glyph) /\ ~ Colors(glyph)
  BY <1>1
<1> HIDE DEF tag, first, last, glyph
<1> DEFINE all == first \o last
<1>8. Good(all) /\ Resets(all) /\ ~ Colors(all)
  BY <1>6, <1>7, JoinIsWhole
<1> HIDE DEF all
<1>9. CASE args = 0
  <2> DEFINE l == <<tag, glyph>> \o <<all>>
  <2>1. Line(m, args) = l
    BY <1>9 DEF Line, all, glyph, tag, first, last, reset
  <2>2. /\ l \in Seq(Seq(Byte)) /\ Len(l) = 3
        /\ l[1] = tag /\ l[2] = glyph /\ l[3] = all
    BY <1>g, <1>4, <1>8
  <2> HIDE DEF l
  <2>3. LineOK(m, l)
    <3> SUFFICES ASSUME NEW k \in 1 .. 3
                 PROVE  /\ Whole(m, l[k])
                        /\ Colors(l[k]) => \E j \in (k + 1) .. 3 : Resets(l[j])
      BY <2>2 DEF LineOK
    <3>1. k = 1 \/ k = 2 \/ k = 3
      OBVIOUS
    <3>2. CASE k = 1
      BY <1>4, <1>8, <2>2, <3>2
    <3>3. CASE k = 2
      BY <1>g, <2>2, <3>3
    <3>4. CASE k = 3
      BY <1>8, <2>2, <3>4
    <3> QED BY <3>1, <3>2, <3>3, <3>4
  <2> QED BY <2>1, <2>2, <2>3
<1>10. CASE args # 0
  <2> DEFINE l == <<tag, glyph>> \o <<first, glyph, last>>
  <2>1. Line(m, args) = l
    BY <1>10 DEF Line, glyph, tag, first, last, reset
  <2>2. /\ l \in Seq(Seq(Byte)) /\ Len(l) = 5
        /\ l[1] = tag /\ l[2] = glyph /\ l[3] = first /\ l[4] = glyph /\ l[5] = last
    BY <1>g, <1>4, <1>6, <1>7
  <2> HIDE DEF l
  <2>3. \E j \in 2 .. 5 : Resets(l[j])
    BY <1>6, <1>7, <2>2
  <2>4. LineOK(m, l)
    <3> SUFFICES ASSUME NEW k \in 1 .. 5
                 PROVE  /\ Whole(m, l[k])
                        /\ Colors(l[k]) => \E j \in (k + 1) .. 5 : Resets(l[j])
      BY <2>2 DEF LineOK
    <3>1. k = 1 \/ k = 2 \/ k = 3 \/ k = 4 \/ k = 5
      OBVIOUS
    <3>2. CASE k = 1
      BY <1>4, <2>2, <2>3, <3>2
    <3>3. CASE k \in {2, 4}
      BY <1>g, <2>2, <3>3
    <3>4. CASE k \in {3, 5}
      BY <1>6, <1>7, <2>2, <3>4
    <3> QED BY <3>1, <3>2, <3>3, <3>4
  <2> QED BY <2>1, <2>2, <2>4
<1> QED BY <1>9, <1>10

-----------------------------------------------------------------------------
(* The inductive invariant.                                                *)

(* The lock is taken exactly while one context is in print() or clear(). *)
LockOK ==
  /\ locked <=> \E t \in Contexts : pc[t] = "print"
  /\ \A t, u \in Contexts : pc[t] = "print" /\ pc[u] = "print" => t = u

(* The cursor is on the screen, if there is room for a character. *)
CursorOK == (cursor_x = 0 \/ cursor_x < columns) /\ (cursor_y = 0 \/ cursor_y < rows)

(* What is left of the lines in progress: nothing outside print(), and     *)
(* whole strings with a reset to come wherever a colour is set.            *)
RestOK(t) ==
  /\ pc[t] \in {"idle", "line", "panicked"} => text[t] = <<>>
  /\ pc[t] \in {"idle", "panicked"} => pieces[t] = <<>>
  /\ LineOK(macro[t], pieces[t])
  /\ Whole(macro[t], text[t])
  /\ Colors(text[t]) => Ends(pieces[t])

(* So it is for the line of every context. *)
LinesOK == \A t \in Contexts : RestOK(t)

(* A colour that a context may be about to set: white, or its own if it    *)
(* is going to reset it.                                                   *)
MaySet(t, c) == c = White \/ (c = Color(macro[t]) /\ Ends(pieces[t]))

(* In the middle of an escape sequence, the context inside print() has the *)
(* rest of a colour before it.                                             *)
EscapeOK ==
  /\ mode # "Print" => \E t \in Contexts : pc[t] = "print"
  /\ \A t \in Contexts : pc[t] = "print" =>
       LET s == text[t]
       IN  /\ mode = "SetR" => Len(s) >= 3 /\ MaySet(t, <<s[1], s[2], s[3]>>)
           /\ mode = "SetG" => Len(s) >= 2 /\ MaySet(t, <<color[1], s[1], s[2]>>)
           /\ mode = "SetB" => Len(s) >= 1 /\ MaySet(t, <<color[1], color[2], s[1]>>)

(* A context that is going to print a reset. *)
WillReset(t) == Resets(text[t]) \/ Ends(pieces[t])

(* The colour belongs to a context that is going to reset it. *)
ColorOK ==
  mode = "Print" /\ color # White =>
    \E t \in Contexts : color = Color(macro[t]) /\ WillReset(t)

(* The inductive invariant. *)
TInv == TypeOK /\ LockOK /\ CursorOK /\ LinesOK /\ EscapeOK /\ ColorOK

(* What a line is printed for. *)
Names == Macros \cup {"none", "clear", "panic", "warning"}

(* Nothing is left to print of an empty line. *)
LEMMA Nothing ==
  /\ ~ Resets(<<>>) /\ ~ Colors(<<>>) /\ ~ Ends(<<>>)
  /\ \A m : Whole(m, <<>>) /\ LineOK(m, <<>>)
BY DEF Resets, Colors, Ends, Whole, LineOK

(* What is said of a context depends on its own line only. *)
Same(t) ==
  macro'[t] = macro[t] /\ pieces'[t] = pieces[t] /\ text'[t] = text[t] /\ pc'[t] = pc[t]

(* A context that takes no step may set the same colours. *)
LEMMA SameLine ==
  ASSUME NEW t \in Contexts, Same(t)
  PROVE  /\ \A c : MaySet(t, c)' <=> MaySet(t, c)
         /\ WillReset(t)' <=> WillReset(t)
BY DEF Same, MaySet, WillReset, Ends, Resets, Bytes

(* And its line is as good as it was. *)
LEMMA SameRest ==
  ASSUME NEW t \in Contexts, Same(t), RestOK(t)
  PROVE  RestOK(t)'
BY DEF Same, RestOK, LineOK, Whole, Colors, Ends, Resets, Bytes

(* The first state. *)
LEMMA InitOK == Init => TInv
<1> SUFFICES ASSUME Init PROVE TInv
  OBVIOUS
<1>1. TypeOK
  <2>1. White \in Byte \X Byte \X Byte
    BY DEF White, Byte
  <2>2. locked \in BOOLEAN /\ cursor_x \in Nat /\ cursor_y \in Nat /\ color \in Byte \X Byte \X Byte
    BY ZenonT(60), <2>1 DEF Init
  <2>3. /\ mode \in {"Print", "SetR", "SetG", "SetB"}
        /\ pc \in [Contexts -> {"idle", "line", "lock", "print", "panicked"}]
        /\ macro \in [Contexts -> Macros \cup {"none", "clear", "panic", "warning"}]
    BY DEF Init
  <2>4. pieces \in [Contexts -> Seq(Seq(Byte))] /\ text \in [Contexts -> Seq(Byte)]
    BY DEF Init
  <2> QED BY <2>2, <2>3, <2>4 DEF TypeOK
<1>2. LockOK /\ CursorOK /\ EscapeOK /\ ColorOK
  BY DEF Init, LockOK, CursorOK, EscapeOK, ColorOK
<1>3. LinesOK
  BY DEF Init, LinesOK, RestOK, LineOK, Whole, Colors
<1> QED BY <1>1, <1>2, <1>3 DEF TInv

(* A line or clear() is started, or a handler: the context was idle, so    *)
(* the colour is not its own.                                              *)
LEMMA StartKeeps ==
  ASSUME TInv, NEW t \in Contexts, NEW m \in Names, NEW label \in {"line", "lock"},
         NEW lines \in Seq(Seq(Byte)), LineOK(m, lines), Start(t, m, label, lines)
  PROVE  TInv'
<1> USE DEF TInv
<1>1. TypeOK'
  BY DEF Start, Goto, TypeOK, info, Names
<1>2. LockOK' /\ CursorOK'
  BY DEF Start, Goto, TypeOK, info, LockOK, CursorOK
<1>3. text[t] = <<>> /\ pieces[t] = <<>>
  BY DEF Start, LinesOK, RestOK
<1>4. /\ macro'[t] = m /\ pieces'[t] = lines /\ text'[t] = <<>> /\ pc'[t] = label
      /\ \A u \in Contexts \ {t} : Same(u)
  BY <1>3 DEF Start, Goto, TypeOK, Same
<1>5. LinesOK'
  <2>1. RestOK(t)'
    BY <1>4, Nothing DEF RestOK, LineOK, Whole, Colors, Resets, Bytes
  <2> QED BY <1>4, <2>1, SameRest DEF LinesOK
<1>6. EscapeOK'
  <2>1. \A u \in Contexts : pc'[u] = "print" => u # t
    BY <1>4
  <2> QED BY ZenonT(60), <1>4, <2>1, SameLine DEF EscapeOK, Start, info, Same, LockOK, TypeOK
<1>7. ColorOK'
  <2>1. ~ WillReset(t)
    BY <1>3, Nothing DEF WillReset
  <2> QED BY <1>4, <2>1, SameLine DEF ColorOK, Start, info, Same
<1> QED BY <1>1, <1>2, <1>5, <1>6, <1>7

(* The next string of the line becomes the text, and what is behind it     *)
(* still resets what it sets.                                              *)
LEMMA WriteKeeps ==
  ASSUME TInv, NEW t \in Contexts, write_str(t)
  PROVE  TInv'
<1> USE DEF TInv
<1> DEFINE s == Head(pieces[t])
           l == pieces[t]
           r == Tail(pieces[t])
<1>1. /\ l \in Seq(Seq(Byte)) /\ Len(l) \in Nat /\ Len(l) > 0
      /\ s = l[1] /\ s \in Seq(Byte) /\ r \in Seq(Seq(Byte)) /\ Len(r) = Len(l) - 1
      /\ \A k \in 1 .. Len(r) : r[k] = l[k + 1]
  BY DEF write_str, TypeOK
<1>2. /\ macro'[t] = macro[t] /\ pieces'[t] = r /\ text'[t] = s /\ pc'[t] = "lock"
      /\ \A u \in Contexts \ {t} : Same(u)
      /\ UNCHANGED <<locked, cursor_x, cursor_y, color, mode>>
  BY DEF write_str, Goto, TypeOK, Same, info
<1>3. TypeOK'
  BY <1>1 DEF write_str, Goto, TypeOK, info
<1>4. LockOK' /\ CursorOK'
  BY DEF write_str, Goto, TypeOK, info, LockOK, CursorOK
<1> HIDE DEF s, l, r
<1>5. LineOK(macro[t], l) /\ text[t] = <<>>
  BY DEF LinesOK, RestOK, write_str, l
<1>6. Whole(macro[t], s) /\ (Colors(s) => Ends(r))
  <2>1. Whole(macro[t], s) /\ (Colors(s) => \E j \in 2 .. Len(l) : Resets(l[j]))
    <3>1. 1 \in 1 .. Len(l) /\ 1 + 1 = 2
      BY <1>1
    <3> QED BY <1>1, <1>5, <3>1 DEF LineOK
  <2>2. ASSUME NEW j \in 2 .. Len(l) PROVE j - 1 \in 1 .. Len(r) /\ r[j - 1] = l[j]
    <3>1. j - 1 \in 1 .. Len(r) /\ j - 1 + 1 = j
      BY <1>1
    <3> QED BY <1>1, <3>1
  <2> QED BY ZenonT(60), <1>1, <2>1, <2>2 DEF Ends
<1>7. LineOK(macro[t], r)
  <2> SUFFICES ASSUME NEW k \in 1 .. Len(r)
               PROVE  /\ Whole(macro[t], r[k])
                      /\ Colors(r[k]) => \E j \in (k + 1) .. Len(r) : Resets(r[j])
    BY DEF LineOK
  <2>1. k + 1 \in 1 .. Len(l) /\ r[k] = l[k + 1]
    BY <1>1
  <2>2. /\ Whole(macro[t], l[k + 1])
        /\ Colors(l[k + 1]) => \E j \in (k + 1 + 1) .. Len(l) : Resets(l[j])
    BY <1>5, <2>1 DEF LineOK
  <2>3. ASSUME NEW j \in (k + 1 + 1) .. Len(l)
        PROVE  j - 1 \in (k + 1) .. Len(r) /\ r[j - 1] = l[j]
    BY <1>1
  <2> QED BY <2>1, <2>2, <2>3
<1>8. LinesOK'
  <2>1. RestOK(t)'
    BY <1>2, <1>6, <1>7 DEF RestOK, LineOK, Whole, Colors, Resets, Ends, Bytes
  <2> QED BY <1>2, <2>1, SameRest DEF LinesOK
<1>9. EscapeOK'
  <2>1. \A u \in Contexts : pc'[u] = "print" => u # t
    BY <1>2
  <2> QED BY ZenonT(60), <1>2, <1>4, <2>1, SameLine DEF EscapeOK, Same, LockOK, TypeOK
<1>10. WillReset(t) => WillReset(t)'
  <2> SUFFICES ASSUME WillReset(t) PROVE Resets(s) \/ Ends(r)
    BY <1>2 DEF WillReset, Ends, Resets, Bytes
  <2>1. PICK k \in 1 .. Len(l) : Resets(l[k])
    BY <1>5, Nothing DEF WillReset, Ends, l
  <2>2. CASE k = 1
    BY <1>1, <2>1, <2>2
  <2>3. CASE k # 1
    <3>1. k - 1 \in 1 .. Len(r) /\ r[k - 1] = l[k]
      BY <1>1, <2>3
    <3> QED BY <2>1, <3>1 DEF Ends
  <2> QED BY <2>2, <2>3
<1>11. ColorOK'
  BY <1>2, <1>10, SameLine DEF ColorOK, Same
<1> QED BY <1>3, <1>4, <1>8, <1>9, <1>11

(* A line ends: its context has nothing left to reset, so the colour is    *)
(* not its own.                                                            *)
LEMMA ReturnKeeps ==
  ASSUME TInv, NEW t \in Contexts, Return(t)
  PROVE  TInv'
<1> USE DEF TInv
<1>1. TypeOK'
  BY DEF Return, Goto, TypeOK, info
<1>2. LockOK' /\ CursorOK'
  BY DEF Return, Goto, TypeOK, info, LockOK, CursorOK
<1>3. text[t] = <<>> /\ pieces[t] = <<>>
  BY DEF Return, LinesOK, RestOK
<1>4. /\ pieces'[t] = <<>> /\ text'[t] = <<>> /\ pc'[t] \in {"idle", "panicked"}
      /\ \A u \in Contexts \ {t} : Same(u)
  BY <1>3 DEF Return, Goto, TypeOK, Same
<1>5. LinesOK'
  <2>1. RestOK(t)'
    BY <1>4, Nothing DEF RestOK, LineOK, Whole, Colors, Resets, Bytes
  <2> QED BY <1>4, <2>1, SameRest DEF LinesOK
<1>6. EscapeOK'
  <2>1. \A u \in Contexts : pc'[u] = "print" => u # t
    BY <1>4
  <2> QED BY ZenonT(60), <1>2, <1>4, <2>1, SameLine DEF EscapeOK, Return, info, Same, LockOK, TypeOK
<1>7. ColorOK'
  <2>1. ~ WillReset(t)
    BY <1>3, Nothing DEF WillReset
  <2> QED BY <1>4, <2>1, SameLine DEF ColorOK, Return, info, Same
<1> QED BY <1>1, <1>2, <1>5, <1>6, <1>7

(* The flag is swapped: nothing else of the terminal changes. *)
LEMMA TryLockKeeps ==
  ASSUME TInv, NEW t \in Contexts, try_lock(t)
  PROVE  TInv'
<1> USE DEF TInv
<1>1. TypeOK'
  BY DEF try_lock, Goto, TypeOK, info
<1>2. LockOK' /\ CursorOK'
  BY DEF try_lock, Goto, TypeOK, info, LockOK, CursorOK
<1>3. /\ UNCHANGED <<cursor_x, cursor_y, color, mode, macro, pieces, text>>
      /\ pc[t] = "lock" /\ pc'[t] \in {"lock", "print"}
      /\ \A u \in Contexts \ {t} : Same(u)
  BY DEF try_lock, Goto, TypeOK, Same, info
<1>4. LinesOK'
  <2>1. RestOK(t)'
    BY ZenonT(60), <1>3 DEF LinesOK, RestOK, LineOK, Whole, Colors, Resets, Ends, Bytes
  <2> QED BY <1>3, <2>1, SameRest DEF LinesOK
<1>5. \A u \in Contexts : (WillReset(u)' <=> WillReset(u)) /\ \A c : MaySet(u, c)' <=> MaySet(u, c)
  BY <1>3 DEF WillReset, MaySet, Ends, Resets, Bytes
<1>6. EscapeOK'
  <2>1. CASE locked
    <3>1. pc' = pc
      BY <2>1 DEF try_lock
    <3> QED BY <1>3, <1>5, <3>1 DEF EscapeOK
  <2>2. CASE ~ locked
    <3>1. mode = "Print"
      BY <2>2 DEF EscapeOK, LockOK
    <3> QED BY <1>3, <3>1 DEF EscapeOK
  <2> QED BY <2>1, <2>2
<1>7. ColorOK'
  BY <1>3, <1>5 DEF ColorOK
<1> QED BY <1>1, <1>2, <1>4, <1>6, <1>7

(* The end of print(): the string is used up, so no escape sequence is     *)
(* open.                                                                   *)
LEMMA UnlockKeeps ==
  ASSUME TInv, NEW t \in Contexts, unlock(t)
  PROVE  TInv'
<1> USE DEF TInv
<1>1. TypeOK'
  BY ZenonT(60) DEF unlock, Goto, TypeOK, info
<1>2. LockOK' /\ CursorOK'
  BY DEF unlock, Goto, TypeOK, info, LockOK, CursorOK
<1>3. /\ UNCHANGED <<cursor_x, cursor_y, color, mode, macro, pieces, text>>
      /\ pc[t] = "print" /\ pc'[t] = "line" /\ text[t] = <<>>
      /\ \A u \in Contexts \ {t} : Same(u)
  BY DEF unlock, Goto, TypeOK, Same, info
<1>4. LinesOK'
  <2>1. RestOK(t)'
    BY ZenonT(60), <1>3 DEF LinesOK, RestOK, LineOK, Whole, Colors, Resets, Ends, Bytes
  <2> QED BY <1>3, <2>1, SameRest DEF LinesOK
<1>5. \A u \in Contexts : WillReset(u)' <=> WillReset(u)
  BY <1>3 DEF WillReset, Ends, Resets, Bytes
<1>6. EscapeOK'
  <2>1. Len(text[t]) = 0
    BY <1>3
  <2>2. /\ mode = "SetR" => Len(text[t]) >= 3
        /\ mode = "SetG" => Len(text[t]) >= 2
        /\ mode = "SetB" => Len(text[t]) >= 1
    BY ZenonT(60), <1>3 DEF EscapeOK
  <2>3. mode = "Print"
    BY <2>1, <2>2 DEF TypeOK
  <2> QED BY <1>3, <2>3 DEF EscapeOK
<1>7. ColorOK'
  BY <1>3, <1>5 DEF ColorOK
<1> QED BY <1>1, <1>2, <1>4, <1>6, <1>7

(* One character is printed: a colour byte completes what MaySet allows, an *)
(* escape character starts it, and a glyph moves the cursor.               *)
LEMMA PrintKeeps ==
  ASSUME TInv, NEW t \in Contexts, print_char(t)
  PROVE  TInv'
<1> USE DEF TInv
<1> DEFINE s == text[t]
           r == Tail(text[t])
           c == Head(text[t])
<1>1. /\ s \in Seq(Byte) /\ s # <<>> /\ c = s[1] /\ c \in Byte /\ c % 256 = c
      /\ r \in Seq(Byte) /\ Len(s) \in Nat /\ Len(s) > 0 /\ Len(r) = Len(s) - 1
      /\ \A n \in 1 .. Len(r) : r[n] = s[n + 1]
  <2>1. s \in Seq(Byte) /\ s # <<>>
    BY DEF print_char, TypeOK
  <2>2. /\ c = s[1] /\ c \in Byte
        /\ r \in Seq(Byte) /\ Len(s) \in Nat /\ Len(s) > 0 /\ Len(r) = Len(s) - 1
        /\ \A n \in 1 .. Len(r) : r[n] = s[n + 1]
    BY <2>1
  <2>3. \A b \in Byte : b % 256 = b
    BY DEF Byte
  <2> QED BY <2>1, <2>2, <2>3
<1>2. /\ pc[t] = "print" /\ UNCHANGED <<locked, pc, macro, pieces>>
      /\ text' = [text EXCEPT ![t] = r] /\ text'[t] = r
      /\ \A u \in Contexts \ {t} : Same(u)
  BY DEF print_char, TypeOK, Same
<1>3. set_color(c) \/ start_escape(c) \/ put_char(c)
  BY DEF print_char
<1> HIDE DEF s, r, c
<1>4. Whole(macro[t], s) /\ (Colors(s) => Ends(pieces[t])) /\ LineOK(macro[t], pieces[t])
  BY DEF LinesOK, RestOK, s
<1>5. /\ Whole(macro[t], r) /\ (Colors(r) => Colors(s))
      /\ Resets(s) /\ s[1] # ESC => Resets(r)
  BY <1>1, <1>4, RestIsWhole DEF s, r
<1>6. LinesOK'
  <2>1. RestOK(t)'
    BY SMTT(60), ZenonT(60), <1>2, <1>4, <1>5 DEF RestOK, LineOK, Whole, Colors, Resets, Ends, Bytes
  <2> QED BY <1>2, <2>1, SameRest DEF LinesOK
<1>7. LockOK'
  BY <1>2 DEF LockOK
<1>8. \A u \in Contexts : pc'[u] = "print" => u = t
  BY <1>2 DEF LockOK
<1>9. \A x : MaySet(t, x)' <=> MaySet(t, x)
  BY <1>2 DEF MaySet, Ends, Resets, Bytes
<1>10. /\ text' \in [Contexts -> Seq(Byte)]
       /\ locked' \in BOOLEAN
       /\ pc' \in [Contexts -> {"idle", "line", "lock", "print", "panicked"}]
       /\ macro' \in [Contexts -> Macros \cup {"none", "clear", "panic", "warning"}]
       /\ pieces' \in [Contexts -> Seq(Seq(Byte))]
  BY <1>1, <1>2 DEF TypeOK
<1>11. ASSUME set_color(c) PROVE TInv'
  <2>1. UNCHANGED <<cursor_x, cursor_y>> /\ CursorOK'
    BY <1>11 DEF set_color, CursorOK
  <2>2. color = <<color[1], color[2], color[3]>> /\ color \in Byte \X Byte \X Byte
    BY DEF TypeOK
  <2>3. CASE mode = "SetR"
    <3>1. mode' = "SetG" /\ color' = [color EXCEPT ![1] = c]
      BY ZenonT(60), <1>1, <1>11, <2>3 DEF set_color, Component, After
    <3>2. color' = <<c, color[2], color[3]>> /\ color' \in Byte \X Byte \X Byte
      BY <1>1, <2>2, <3>1
    <3>3. Len(s) >= 3 /\ MaySet(t, <<s[1], s[2], s[3]>>)
      BY <1>2, <2>3 DEF EscapeOK, s
    <3>4. Len(r) >= 2 /\ r[1] = s[2] /\ r[2] = s[3] /\ color'[1] = s[1]
      BY <1>1, <3>2, <3>3
    <3>5. MaySet(t, <<color'[1], text'[t][1], text'[t][2]>>)
      BY <1>2, <3>3, <3>4
    <3>6. EscapeOK'
      BY <1>2, <1>8, <1>9, <3>1, <3>4, <3>5 DEF EscapeOK
    <3> QED BY <1>6, <1>7, <1>10, <2>1, <3>1, <3>2, <3>6 DEF TypeOK, ColorOK
  <2>4. CASE mode = "SetG"
    <3>1. mode' = "SetB" /\ color' = [color EXCEPT ![2] = c]
      BY ZenonT(60), <1>1, <1>11, <2>4 DEF set_color, Component, After
    <3>2. color' = <<color[1], c, color[3]>> /\ color' \in Byte \X Byte \X Byte
      BY <1>1, <2>2, <3>1
    <3>3. Len(s) >= 2 /\ MaySet(t, <<color[1], s[1], s[2]>>)
      BY <1>2, <2>4 DEF EscapeOK, s
    <3>4. Len(r) >= 1 /\ r[1] = s[2] /\ color'[1] = color[1] /\ color'[2] = s[1]
      BY <1>1, <3>2, <3>3
    <3>5. MaySet(t, <<color'[1], color'[2], text'[t][1]>>)
      BY <1>2, <3>3, <3>4
    <3>6. EscapeOK'
      BY <1>2, <1>8, <1>9, <3>1, <3>4, <3>5 DEF EscapeOK
    <3> QED BY <1>6, <1>7, <1>10, <2>1, <3>1, <3>2, <3>6 DEF TypeOK, ColorOK
  <2>5. CASE mode = "SetB"
    <3>1. mode' = "Print" /\ color' = [color EXCEPT ![3] = c]
      BY ZenonT(60), <1>1, <1>11, <2>5 DEF set_color, Component, After
    <3>2. color' = <<color[1], color[2], c>> /\ color' \in Byte \X Byte \X Byte
      BY <1>1, <2>2, <3>1
    <3>3. MaySet(t, <<color[1], color[2], s[1]>>)
      BY <1>2, <2>5 DEF EscapeOK, s
    <3>4. MaySet(t, color')
      BY <1>1, <3>2, <3>3
    <3>5. ColorOK'
      BY ZenonT(60), <1>2, <3>4 DEF ColorOK, MaySet, WillReset, Ends, Resets, Bytes
    <3> QED BY <1>6, <1>7, <1>10, <2>1, <3>1, <3>2, <3>5 DEF TypeOK, EscapeOK
  <2> QED BY <1>11, <2>3, <2>4, <2>5 DEF set_color, Component
<1>12. ASSUME start_escape(c) PROVE TInv'
  <2>1. mode' = "SetR" /\ UNCHANGED <<cursor_x, cursor_y, color>> /\ CursorOK' /\ TypeOK'
    BY <1>10, <1>12 DEF start_escape, CursorOK, TypeOK
  <2>2. 1 \in 1 .. Len(s) /\ s[1] = ESC
    BY <1>1, <1>12 DEF start_escape
  <2>3. Len(s) >= 4 /\ Bytes(s, 1) \in {Color(macro[t]), White}
    BY <1>1, <1>4, <2>2 DEF Whole
  <2>4. Bytes(s, 1) # White => Ends(pieces[t])
    BY <1>4, <2>2 DEF Colors
  <2>5. Bytes(s, 1) = <<r[1], r[2], r[3]>> /\ Len(r) >= 3
    BY <1>1, <2>3 DEF Bytes
  <2>6. MaySet(t, <<text'[t][1], text'[t][2], text'[t][3]>>)
    BY <1>2, <2>3, <2>4, <2>5 DEF MaySet
  <2>7. EscapeOK'
    BY <1>2, <1>8, <1>9, <2>1, <2>5, <2>6 DEF EscapeOK
  <2> QED BY <1>6, <1>7, <2>1, <2>7 DEF ColorOK
<1>13. ASSUME put_char(c) PROVE TInv'
  <2>1. mode = "Print" /\ UNCHANGED <<color, mode>> /\ c # ESC
    BY <1>13 DEF put_char
  <2>2. TypeOK' /\ CursorOK'
    <3>1. cursor_x' \in Nat /\ cursor_y' \in Nat /\ CursorOK'
      <4>1. columns \in Int /\ rows \in Int
        BY ScreenAssumption DEF columns, rows, MARGIN
      <4> QED BY <1>13, <4>1 DEF put_char, new_line, advance_cursor, CursorOK, TypeOK
    <3> QED BY <1>10, <2>1, <3>1 DEF TypeOK
  <2>3. WillReset(t) => WillReset(t)'
    BY ZenonT(60), <1>1, <1>2, <1>5, <2>1 DEF WillReset, Ends, Resets, Bytes, s
  <2>4. ColorOK'
    BY <1>2, <2>1, <2>3, SameLine DEF ColorOK
  <2>5. EscapeOK'
    BY <2>1 DEF EscapeOK
  <2> QED BY <1>6, <1>7, <2>2, <2>4, <2>5
<1> QED BY <1>3, <1>11, <1>12, <1>13

(* The inductive invariant holds in every state that is reached. *)
LEMMA Invariance == Spec => []TInv
<1>1. TInv /\ [Next]_vars => TInv'
  <2> SUFFICES ASSUME TInv, [Next]_vars PROVE TInv'
    OBVIOUS
  <2>1. ASSUME NEW t \in Contexts, Step(t) PROVE TInv'
    BY <2>1, WriteKeeps, ReturnKeeps, TryLockKeeps, PrintKeeps, UnlockKeeps DEF Step
  <2>2. ASSUME NEW k \in Cores, Call(k) PROVE TInv'
    <3>1. <<k, "main">> \in Contexts /\ <<k, "handler">> \in Contexts
      BY DEF Contexts
    <3>2. ASSUME Log(k) PROVE TInv'
      <4>1. PICK m \in Macros, args \in 0 .. 1 : Start(<<k, "main">>, m, "line", Line(m, args))
        BY <3>2 DEF Log
      <4>2. m \in Names
        BY DEF Names
      <4> QED BY <3>1, <4>1, <4>2, LinesAreWhole, StartKeeps
    <3>3. ASSUME clear(k) PROVE TInv'
      <4>1. "clear" \in Names /\ <<>> \in Seq(Seq(Byte))
        BY DEF Names
      <4> QED BY ZenonT(60), <3>1, <3>3, <4>1, Nothing, StartKeeps DEF clear
    <3>4. ASSUME panic_handler(k) PROVE TInv'
      <4>1. "panic" \in Names
        BY DEF Names
      <4> QED BY <3>1, <3>4, <4>1, LinesAreWhole, StartKeeps DEF panic_handler
    <3>5. ASSUME isr_default_handler(k) PROVE TInv'
      <4>1. "warning" \in Names
        BY DEF Names
      <4> QED BY <3>1, <3>5, <4>1, LinesAreWhole, StartKeeps DEF isr_default_handler
    <3> QED BY <2>2, <3>2, <3>3, <3>4, <3>5 DEF Call
  <2>3. ASSUME UNCHANGED vars PROVE TInv'
    <3>1. UNCHANGED <<locked, cursor_x, cursor_y, color, mode, pc, macro, pieces, text>>
      BY <2>3 DEF vars, info, call
    <3>2. TypeOK' /\ LockOK' /\ CursorOK'
      BY <3>1 DEF TInv, TypeOK, LockOK, CursorOK
    <3>3. LinesOK'
      BY <3>1, SameRest DEF TInv, LinesOK, Same
    <3>4. EscapeOK' /\ ColorOK'
      BY <3>1, SameLine DEF TInv, EscapeOK, ColorOK, Same
    <3> QED BY <3>2, <3>3, <3>4 DEF TInv
  <2> QED BY <2>1, <2>2, <2>3 DEF Next, PanicLoop
<1> QED BY <1>1, InitOK, PTL DEF Spec

-----------------------------------------------------------------------------
(* The theorems.                                                           *)

(* However lines wrap and start over, on every screen with room for the    *)
(* margins a glyph of print_char is inside the framebuffer.                *)
THEOREM GlyphsStayOnScreen == Spec => []PixelsOnScreen
<1>1. TInv => PixelsOnScreen
  <2> SUFFICES ASSUME TInv, NEW dx \in 0 .. 7, NEW dy \in 0 .. 7
               PROVE  LET x == MARGIN + cursor_x * 8 + dx
                          y == MARGIN + cursor_y * 8 + dy
                      IN  /\ columns > 0 => x < WIDTH - MARGIN
                          /\ rows > 0 => y < HEIGHT - MARGIN
                          /\ (x + y * SCAN_WIDTH) * 4 + 2 < SCAN_WIDTH * HEIGHT * 4
    BY DEF PixelsOnScreen
  <2> DEFINE x == MARGIN + cursor_x * 8 + dx
             y == MARGIN + cursor_y * 8 + dy
  <2>1. /\ WIDTH \in Nat /\ HEIGHT \in Nat /\ SCAN_WIDTH \in Nat
        /\ WIDTH >= 32 /\ HEIGHT >= 32 /\ SCAN_WIDTH >= WIDTH
    BY ScreenAssumption DEF MARGIN
  <2>2. /\ columns \in Nat /\ columns * 8 <= WIDTH - 32
        /\ rows \in Nat /\ rows * 8 <= HEIGHT - 32
    BY <2>1 DEF columns, rows, MARGIN
  <2>3. cursor_x \in Nat /\ cursor_y \in Nat /\ CursorOK
    BY DEF TInv, TypeOK
  <2>4. x \in Nat /\ x < SCAN_WIDTH /\ (columns > 0 => x < WIDTH - MARGIN)
    BY <2>1, <2>2, <2>3 DEF CursorOK, MARGIN
  <2>5. y \in Nat /\ y < HEIGHT /\ (rows > 0 => y < HEIGHT - MARGIN)
    BY <2>1, <2>2, <2>3 DEF CursorOK, MARGIN
  <2> HIDE DEF x, y
  <2>6. y * SCAN_WIDTH <= (HEIGHT - 1) * SCAN_WIDTH
    BY <2>1, <2>5
  <2>7. (HEIGHT - 1) * SCAN_WIDTH = SCAN_WIDTH * HEIGHT - SCAN_WIDTH
    BY <2>1
  <2>8. (x + y * SCAN_WIDTH) * 4 + 2 < SCAN_WIDTH * HEIGHT * 4
    BY <2>1, <2>4, <2>5, <2>6, <2>7
  <2> QED BY <2>4, <2>5, <2>8 DEF x, y
<1> QED BY <1>1, Invariance, PTL

(* Whatever contexts print and whichever are interrupted, nobody gets the  *)
(* lock in the middle of an escape sequence of somebody else.              *)
THEOREM EscapesAreNotTorn == Spec => []EscapesAreWhole
<1>1. TInv => EscapesAreWhole
  <2> SUFFICES ASSUME TInv PROVE EscapesAreWhole
    OBVIOUS
  <2>1. ~ locked => mode = "Print"
    BY DEF TInv, LockOK, EscapeOK
  <2>2. ASSUME NEW t \in Contexts, pc[t] = "print", mode # "Print" PROVE text[t] # <<>>
    <3>1. /\ mode = "SetR" => Len(text[t]) >= 3
          /\ mode = "SetG" => Len(text[t]) >= 2
          /\ mode = "SetB" => Len(text[t]) >= 1
      BY ZenonT(60), <2>2 DEF TInv, EscapeOK
    <3>2. mode \in {"SetR", "SetG", "SetB"}
      BY <2>2 DEF TInv, TypeOK
    <3> QED BY <3>1, <3>2
  <2> QED BY <2>1, <2>2 DEF EscapesAreWhole
<1> QED BY <1>1, Invariance, PTL

(* However lines overlap, the colour is white or that of a line that is    *)
(* not finished.                                                           *)
THEOREM ColorIsOwned == Spec => []ColorHasOwner
<1>1. TInv => ColorHasOwner
  BY DEF TInv, ColorOK, ColorHasOwner
<1> QED BY <1>1, Invariance, PTL

(* Each step of a context, handlers on top of it included, is a step of    *)
(* the spin lock or does not concern it.                                   *)
THEOREM PrintsUnderLock == Spec => ImplementsSpinLock
<1>1. Init => Mutex!Init
  BY DEF Init, Mutex!Init, At
<1>2. TInv /\ [Next]_vars => [Mutex!Next]_(Mutex!vars)
  <2> SUFFICES ASSUME TInv, [Next]_vars PROVE [Mutex!Next]_(Mutex!vars)
    OBVIOUS
  <2>1. ASSUME NEW t \in Contexts, Step(t) PROVE [Mutex!Next]_(Mutex!vars)
    <3>1. ASSUME write_str(t) PROVE Mutex!Lock(t)
      BY ZenonT(60), <3>1 DEF TInv, TypeOK, write_str, Goto, At, Mutex!Lock
    <3>2. ASSUME Return(t) PROVE UNCHANGED Mutex!vars
      BY <3>2 DEF TInv, TypeOK, Return, Goto, At, Mutex!vars
    <3>3. ASSUME try_lock(t) PROVE Mutex!try_lock(t)
      BY ZenonT(60), <3>3 DEF TInv, TypeOK, try_lock, Goto, At, Mutex!try_lock
    <3>4. ASSUME print_char(t) PROVE UNCHANGED Mutex!vars
      BY <3>4 DEF print_char, At, Mutex!vars
    <3>5. ASSUME unlock(t) PROVE Mutex!unlock(t)
      BY ZenonT(60), <3>5 DEF TInv, TypeOK, unlock, Goto, At, Mutex!unlock
    <3> QED BY <2>1, <3>1, <3>2, <3>3, <3>4, <3>5 DEF Step, Mutex!Next
  <2>2. ASSUME NEW t \in Contexts, NEW m, NEW lines, Start(t, m, "line", lines)
        PROVE  UNCHANGED Mutex!vars
    BY <2>2 DEF TInv, TypeOK, Start, Goto, At, Mutex!vars
  <2>3. ASSUME NEW k \in Cores, Call(k) PROVE [Mutex!Next]_(Mutex!vars)
    <3>1. <<k, "main">> \in Contexts /\ <<k, "handler">> \in Contexts
      BY DEF Contexts
    <3>2. ASSUME clear(k) PROVE Mutex!Lock(<<k, "main">>)
      BY ZenonT(60), <3>1, <3>2 DEF TInv, TypeOK, clear, Start, Goto, At, Mutex!Lock
    <3> QED BY <2>2, <2>3, <3>1, <3>2 DEF Call, Log, panic_handler, isr_default_handler, Mutex!Next
  <2>4. ASSUME UNCHANGED vars PROVE UNCHANGED Mutex!vars
    BY <2>4 DEF vars, call, Mutex!vars, At
  <2> QED BY <2>1, <2>3, <2>4 DEF Next, PanicLoop
<1> QED BY <1>1, <1>2, Invariance, PTL DEF Spec, ImplementsSpinLock, Mutex!Spec

=============================================================================
