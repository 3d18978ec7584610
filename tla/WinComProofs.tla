---------------------------- MODULE WinComProofs ----------------------------
(***************************************************************************)
(* Every file WinCom meets is the original, or the original with one fix   *)
(* in a place that was zeroes, as long as -reverse has not met an old fix. *)
(* What is between them is arithmetic on 16 bits: the displacement stored  *)
(* at the end of the fix and the one at the start of the program determine *)
(* each other.  That an update goes through holds of every file, also those *)
(* a misread fix leaves: all have one fix at most, which is entered.       *)
(***************************************************************************)
EXTENDS WinCom, TLAPS

Revs == {CRFIX_REV0, CRFIX_REV}

\* The files there are where the original is o.
Patched(o, f) == \E b \in Blocks, r \in Revs : o.block[b] = Zero /\ f = WithFix(o, b, r)
Known(o, f)   == f = o \/ Patched(o, f)

ComInv ==
  /\ ComTypeOK
  /\ pc \in {"look", "write"} => ~applied
  /\ pc = "look" => copy = file
  /\ ~misread =>
       /\ Known(orig, file)
       /\ pc = "write" => copy = orig /\ ~reverse
       /\ applied => Known(orig, copy) /\ (reverse => copy = orig)
       /\ last = "reverse" => file = orig

--------------------------------------------------------------------------
(* Arithmetic on 16 bits                                                   *)

LEMMA WrapIsWord == \A n \in Int : Wrap(n) \in Word
BY DEF Wrap, Word

LEMMA WrapWord == \A n \in Word : Wrap(n) = n
BY DEF Wrap, Word

\* Adding what was subtracted.
LEMMA WrapBack == \A n, k \in Int : Wrap(Wrap(n - k) + k) = Wrap(n)
BY DEF Wrap

LEMMA SizeIs == \A r : Size(r) \in {144, 224}
BY DEF Size

--------------------------------------------------------------------------
(* A file with the fix                                                     *)

LEMMA OriginalIs ==
  ASSUME NEW o \in Originals
  PROVE  /\ o \in File /\ o.jmp \in Word /\ o.block \in [Blocks -> Content]
         /\ Target(o) \in Word
         /\ \A b \in Blocks : /\ o.block[b].what # "fix"
                              /\ o.block[b].what = "zero" => o.block[b] = Zero
         /\ ~Fixed(o)
<1>1. o \in File /\ Target(o) \in Word
  BY ComAssumption
<1>2. o.jmp \in Word /\ o.block \in [Blocks -> Content]
  BY ONLY <1>1 DEF File
<1>3. \A b \in Blocks : /\ o.block[b].what \in {"zero", "code"}
                        /\ o.block[b].what = "zero" => o.block[b] = Zero
  BY ComAssumption
<1>4. ~Fixed(o)
  BY ONLY <1>3 DEF Fixed, Enters
<1> QED BY ONLY <1>1, <1>2, <1>3, <1>4

LEMMA AddressIs ==
  ASSUME NEW b \in Blocks
  PROVE  good_addrs[b] \in Word /\ good_addrs[b] >= COM_ORG
BY ComAssumption DEF Blocks

\* The program with a fix starts in the fix, and nowhere else.
HasFix(o, b, r, f) ==
  /\ f \in File
  /\ f.block[b] = [what |-> "fix", rev |-> r,
                   jmp |-> Wrap(Target(o) - (good_addrs[b] + Size(r)))]
  /\ \A c \in Blocks \ {b} : f.block[c] = o.block[c]
  /\ \A c \in Blocks : Enters(f, c) <=> c = b
  /\ Fixed(f) /\ Fix(f) = b

LEMMA FixIs ==
  ASSUME NEW o \in Originals, NEW b \in Blocks, NEW r \in Revs,
         NEW f, f = WithFix(o, b, r)
  PROVE  HasFix(o, b, r, f)
<1> DEFINE a == good_addrs[b]
           w == Wrap(a + CRFIX_CODE_START - (COM_ORG + 3))
           x == Wrap(Target(o) - (a + Size(r)))
           c0 == [what |-> "fix", rev |-> r, jmp |-> x]
<1>1. a \in Word /\ a >= COM_ORG
  BY AddressIs
<1>2. w \in Word /\ (a + CRFIX_CODE_START \in Word => w + 3 + COM_ORG = a + CRFIX_CODE_START)
  BY <1>1 DEF Wrap, Word, COM_ORG, CRFIX_CODE_START
<1>3. a + CRFIX_CODE_START \in Word
  <2>1. a + Size(CRFIX_REV) \in Word
    BY ComAssumption
  <2> QED BY <1>1, <2>1 DEF Size, Word, COM_ORG, CRFIX_CODE_START, CRFIX_REV
<1>4. x \in Word
  <2>1. Target(o) \in Int /\ a \in Int /\ Size(r) \in Int
    BY <1>1, OriginalIs, SizeIs DEF Word, COM_ORG
  <2>2. Target(o) - (a + Size(r)) \in Int
    BY ONLY <2>1
  <2> QED BY ONLY <2>2, WrapIsWord
<1>5. c0 \in Content
  BY <1>4 DEF Content, Revs
<1>6. f = [jmp |-> w, block |-> [o.block EXCEPT ![b] = c0]]
  BY DEF WithFix
<1>7. o.block \in [Blocks -> Content] /\ \A c \in Blocks : o.block[c].what # "fix"
  BY OriginalIs
<1> HIDE DEF a, w, x, c0
<1>8. f \in File /\ f.jmp = w
  BY ONLY <1>2, <1>5, <1>6, <1>7 DEF File
<1>9. f.block[b] = c0 /\ \A c \in Blocks \ {b} : f.block[c] = o.block[c]
  BY ONLY <1>6, <1>7
<1>10. c0.what = "fix"
  BY DEF c0
<1>11. \A c \in Blocks : Enters(f, c) <=> c = b
  <2>1. Target(f) = good_addrs[b] + CRFIX_CODE_START
    BY ONLY <1>2, <1>3, <1>8 DEF Target, a
  <2>2. \A c \in Blocks \ {b} : f.block[c].what # "fix"
    BY ONLY <1>7, <1>9
  <2> QED BY ONLY <2>1, <2>2, <1>9, <1>10 DEF Enters
<1>12. Fixed(f) /\ Fix(f) = b
  BY ONLY <1>11, b \in Blocks DEF Fixed, Fix
<1> QED BY <1>8, <1>9, <1>11, <1>12 DEF HasFix, c0, x, a

\* Taking the fix out leaves the original.
LEMMA EraseRestores ==
  ASSUME NEW o \in Originals, NEW b \in Blocks, NEW r \in Revs, o.block[b] = Zero,
         NEW f, f = WithFix(o, b, r)
  PROVE  WithoutFix(f, Size(r)) = o
<1> DEFINE a == good_addrs[b]
           k == a + Size(r)
           x == Wrap(Target(o) - k)
<1>1. /\ f \in File /\ Fix(f) = b
      /\ f.block[b] = [what |-> "fix", rev |-> r, jmp |-> x]
      /\ \A c \in Blocks \ {b} : f.block[c] = o.block[c]
  <2>1. HasFix(o, b, r, f)
    BY FixIs
  <2> QED BY ONLY <2>1 DEF HasFix
<1>2. a \in Word /\ a >= COM_ORG /\ Size(r) \in {144, 224}
  BY AddressIs, SizeIs
<1>3. o \in File /\ o.jmp \in Word /\ o.block \in [Blocks -> Content]
  BY OriginalIs
<1>4. JumpAt(f.block[b], Size(r)) = x
  BY <1>1 DEF JumpAt
<1>5. o.jmp \in Int /\ k \in Int /\ a \in Int /\ Size(r) \in Int
  BY <1>2, <1>3 DEF Word, COM_ORG
<1>6. \A n : n = x + a + Size(r) => Wrap(n - (COM_ORG + 3)) = o.jmp
  <2> DEFINE d == k - 259
  <2>1. d \in Int /\ Target(o) - k = o.jmp - d
    BY <1>5 DEF Target, COM_ORG
  <2>2. x = Wrap(o.jmp - d) /\ x \in Int
    BY <2>1, <1>5, WrapIsWord DEF Word
  <2>3. Wrap(Wrap(o.jmp - d) + d) = o.jmp
    <3>1. d \in Int /\ o.jmp \in Int /\ Wrap(o.jmp) = o.jmp
      BY <2>1, <1>3, <1>5, WrapWord
    <3> HIDE DEF d
    <3> QED BY ONLY <3>1, WrapBack
  <2>4. ASSUME NEW n, n = x + a + Size(r)
        PROVE  Wrap(n - (COM_ORG + 3)) = o.jmp
    <3>1. n - (COM_ORG + 3) = Wrap(o.jmp - d) + d
      BY <2>2, <2>4, <1>5 DEF COM_ORG
    <3> QED BY ONLY <3>1, <2>3
  <2> QED BY <2>4
<1> HIDE DEF x
<1>7. WithoutFix(f, Size(r)) = [jmp |-> o.jmp, block |-> [f.block EXCEPT ![b] = Zero]]
  <2>1. Fix(f) = b
    BY <1>1
  <2>2. Return(f, Size(r)) = x + a + Size(r)
    BY <2>1, <1>4 DEF Return
  <2>3. Wrap(Return(f, Size(r)) - (COM_ORG + 3)) = o.jmp
    BY ONLY <2>2, <1>6, Zenon
  <2> QED BY ONLY <2>1, <2>3, Zenon DEF WithoutFix
<1>8. [f.block EXCEPT ![b] = Zero] = o.block
  BY ONLY <1>1, <1>3, o.block[b] = Zero DEF File
<1>9. o = [jmp |-> o.jmp, block |-> o.block]
  BY ONLY <1>3 DEF File
<1> QED BY ONLY <1>7, <1>8, <1>9

\* Through the fix the program starts where the original starts.
LEMMA FixReaches ==
  ASSUME NEW o \in Originals, NEW b \in Blocks, NEW r \in Revs,
         NEW f, f = WithFix(o, b, r)
  PROVE  Reaches(f) = Reaches(o)
<1> DEFINE k == good_addrs[b] + Size(r)
           x == Wrap(Target(o) - k)
<1>1. Fixed(f) /\ Fix(f) = b /\ f.block[b] = [what |-> "fix", rev |-> r, jmp |-> x]
  <2>1. HasFix(o, b, r, f)
    BY FixIs
  <2> QED BY ONLY <2>1 DEF HasFix
<1>2. good_addrs[b] \in Int /\ Size(r) \in Int /\ Target(o) \in Int /\ ~Fixed(o)
  BY AddressIs, SizeIs, OriginalIs DEF COM_ORG, Word
<1>3. k \in Int /\ x \in Int
  BY <1>2, WrapIsWord DEF Word
<1>4. Wrap(x + k) = Wrap(Target(o))
  BY <1>2, <1>3, WrapBack
<1>5. x + good_addrs[b] + Size(r) = x + k
  BY <1>2, <1>3
<1>6. Reaches(f) = Wrap(x + good_addrs[b] + Size(r))
  BY <1>1 DEF Reaches, Return, JumpAt
<1> QED BY <1>2, <1>4, <1>5, <1>6 DEF Reaches

--------------------------------------------------------------------------
(* The steps                                                               *)

\* What is known of a known file.
LEMMA KnownIs ==
  ASSUME NEW o \in Originals, NEW f, Known(o, f)
  PROVE  /\ f \in File
         /\ Reaches(f) = Reaches(o)
         /\ \A b \in Blocks : Enters(f, b) \/ f.block[b] = o.block[b]
         /\ ~Fixed(f) => f = o
         /\ Fixed(f) => WithoutFix(f, Size(f.block[Fix(f)].rev)) = o
<1>1. CASE f = o
  BY <1>1, OriginalIs
<1>2. CASE Patched(o, f)
  <2>1. PICK b \in Blocks, r \in Revs : o.block[b] = Zero /\ f = WithFix(o, b, r)
    BY <1>2 DEF Patched
  <2>2. /\ f \in File /\ Fixed(f) /\ f.block[Fix(f)].rev = r
        /\ \A c \in Blocks : Enters(f, c) \/ f.block[c] = o.block[c]
    <3>1. HasFix(o, b, r, f)
      BY ONLY <2>1, FixIs, o \in Originals
    <3> QED BY ONLY <3>1 DEF HasFix
  <2>3. WithoutFix(f, Size(r)) = o
    BY ONLY <2>1, EraseRestores, o \in Originals
  <2>4. Reaches(f) = Reaches(o)
    BY ONLY <2>1, FixReaches, o \in Originals
  <2> QED BY ONLY <2>2, <2>3, <2>4
<1> QED BY <1>1, <1>2 DEF Known

\* The fix is put into a place that was zeroes.
LEMMA FirstIs ==
  ASSUME NEW o \in Originals, NEW b \in Blocks, First(o, b), NEW r \in Revs
  PROVE  Known(o, WithFix(o, b, r)) /\ WithFix(o, b, r) \in File
<1>1. o.block[b] = Zero
  BY OriginalIs DEF First, Free
<1> QED BY <1>1, FixIs DEF HasFix, Known, Patched

LEMMA InitInv == ASSUME Init PROVE ComInv
<1>1. orig \in Originals
  BY DEF Init
<1>2. Known(orig, file) /\ file \in File
  <2>1. CASE file = orig
    BY <1>1, <2>1, OriginalIs DEF Known
  <2>2. CASE \E b \in Blocks : First(orig, b) /\ file = WithFix(orig, b, CRFIX_REV0)
    BY <1>1, <2>2, FirstIs DEF Revs
  <2> QED BY <2>1, <2>2 DEF Init
<1>3. 0 \in 0 .. MaxCalls
  BY ComAssumption
<1> QED BY <1>1, <1>2, <1>3 DEF Init, ComInv, ComTypeOK

\* A copy made from any file, for the types.
LEMMA WithoutTypes ==
  ASSUME NEW f \in File, Fixed(f), NEW n \in Nat
  PROVE  WithoutFix(f, n) \in File
<1>1. Fix(f) \in Blocks
  BY DEF Fixed, Fix
<1>2. JumpAt(f.block[Fix(f)], n) \in Int
  BY <1>1 DEF JumpAt, File, Content, Word
<1>3. good_addrs[Fix(f)] \in Int
  BY <1>1, AddressIs DEF Word
<1>4. Wrap(Return(f, n) - (COM_ORG + 3)) \in Word
  BY <1>2, <1>3, WrapIsWord DEF Return, COM_ORG
<1>5. Zero \in Content
  BY DEF Zero, Content, Word, CRFIX_REV0
<1>6. f.block \in [Blocks -> Content]
  BY DEF File
<1>7. [f.block EXCEPT ![Fix(f)] = Zero] \in [Blocks -> Content]
  BY ONLY <1>5, <1>6
<1> QED BY ONLY <1>4, <1>7 DEF WithoutFix, File

LEMMA WithTypes ==
  ASSUME NEW f \in File, NEW b \in Blocks
  PROVE  WithFix(f, b, CRFIX_REV) \in File
<1> DEFINE w == Wrap(good_addrs[b] + CRFIX_CODE_START - (COM_ORG + 3))
           x == Wrap(Target(f) - (good_addrs[b] + Size(CRFIX_REV)))
<1>1. good_addrs[b] \in Int /\ Target(f) \in Int /\ Size(CRFIX_REV) \in Int
  BY AddressIs, SizeIs DEF Word, File, Target, COM_ORG
<1>2. w \in Word /\ x \in Word
  BY <1>1, WrapIsWord DEF COM_ORG, CRFIX_CODE_START
<1>3. [what |-> "fix", rev |-> CRFIX_REV, jmp |-> x] \in Content
  BY <1>2 DEF Content
<1>4. WithFix(f, b, CRFIX_REV) =
        [jmp |-> w, block |-> [f.block EXCEPT ![b] = [what |-> "fix", rev |-> CRFIX_REV, jmp |-> x]]]
  BY DEF WithFix
<1> HIDE DEF w, x
<1> QED BY <1>2, <1>3, <1>4 DEF File

LEMMA QuietInv ==
  ASSUME ComInv, Start \/ NothingThere \/ BeginFix \/ Present \/ Refused \/ Accept \/ Discard
  PROVE  ComInv'
<1>1. orig \in Originals /\ UNCHANGED <<orig, misread>>
  BY DEF ComInv, ComTypeOK, Start, NothingThere, BeginFix, Present, Refused, Accept, Discard, history
<1>2. CASE Start
  <2>1. calls' \in 0 .. MaxCalls
    BY <1>2, ComAssumption DEF Start, ComInv, ComTypeOK
  <2>2. ComTypeOK'
    BY <1>1, <1>2, <2>1 DEF Start, ComInv, ComTypeOK
  <2> QED BY <1>1, <1>2, <2>2 DEF Start, ComInv
<1>3. CASE BeginFix
  <2>1. ~misread => copy = orig
    BY <1>1, <1>3, KnownIs DEF BeginFix, ComInv
  <2>2. ComTypeOK'
    BY <1>1, <1>3 DEF BeginFix, ComInv, ComTypeOK
  <2> QED BY <1>1, <1>3, <2>1, <2>2 DEF BeginFix, ComInv
<1>4. CASE NothingThere \/ Present \/ Refused \/ Discard
  <2>1. ComTypeOK'
    BY <1>1, <1>4 DEF NothingThere, Present, Refused, Discard, ComInv, ComTypeOK
  <2> QED BY <1>1, <1>4, <2>1 DEF NothingThere, Present, Refused, Discard, ComInv
<1>5. CASE Accept
  <2>1. ComTypeOK'
    BY <1>1, <1>5 DEF Accept, ComInv, ComTypeOK
  <2> QED BY <1>1, <1>5, <2>1 DEF Accept, ComInv
<1> QED BY <1>2, <1>3, <1>4, <1>5

\* The newest fix is taken out of a known file, which gives the original.
LEMMA EraseInv == ASSUME ComInv, Erase PROVE ComInv'
<1>1. orig \in Originals /\ UNCHANGED <<orig, misread>>
  BY DEF ComInv, ComTypeOK, Erase, history
<1>2. file \in File /\ Fixed(file) /\ file.block[Fix(file)].rev = CRFIX_REV
  BY DEF ComInv, ComTypeOK, Erase, Newest
<1>3. copy' \in File
  BY <1>2, SizeIs, WithoutTypes DEF Erase
<1>4. ~misread => copy' = orig
  BY <1>1, <1>2, KnownIs DEF Erase, ComInv
<1>5. ComTypeOK'
  BY <1>1, <1>3 DEF Erase, ComInv, ComTypeOK
<1> QED BY <1>1, <1>4, <1>5 DEF Erase, ComInv, Known

\* So does the old one, when its length is used.
LEMMA EraseOldInv == ASSUME ComInv, EraseOld PROVE ComInv'
<1>1. orig \in Originals /\ orig' = orig /\ file' = file
  BY DEF ComInv, ComTypeOK, EraseOld
<1>2. file \in File /\ Fixed(file) /\ file.block[Fix(file)].rev # CRFIX_REV
  BY DEF ComInv, ComTypeOK, EraseOld, Oldest, Newest
<1>3. file.block[Fix(file)].rev = CRFIX_REV0
  <2>1. Fix(file) \in Blocks
    BY <1>2 DEF Fixed, Fix
  <2>2. file.block[Fix(file)].rev \in {CRFIX_REV0, CRFIX_REV}
    BY <1>2, <2>1 DEF File, Content
  <2> QED BY <1>2, <2>2
<1>4. copy' \in File
  BY <1>2, SizeIs, WithoutTypes DEF EraseOld
<1>5. ~misread' => ~misread /\ ~reverse /\ copy' = orig
  BY <1>1, <1>2, <1>3, KnownIs DEF EraseOld, ComInv
<1>6. misread' \in BOOLEAN
  BY DEF EraseOld, ComInv, ComTypeOK
<1>7. ComTypeOK'
  BY <1>1, <1>4, <1>6 DEF EraseOld, ComInv, ComTypeOK
<1> QED BY <1>1, <1>5, <1>7 DEF EraseOld, ComInv

\* The fix goes into the first place that was zeroes in the original.
LEMMA WriteFixInv == ASSUME ComInv, WriteFix PROVE ComInv'
<1>1. orig \in Originals /\ UNCHANGED <<orig, misread, file, reverse, last>>
  BY DEF ComInv, ComTypeOK, WriteFix, history
<1>2. copy \in File /\ applied = FALSE
  BY DEF ComInv, ComTypeOK, WriteFix
<1>3. CASE UNCHANGED <<copy, applied>>
  <2>1. ComTypeOK'
    BY <1>1, <1>3 DEF WriteFix, ComInv, ComTypeOK
  <2> QED BY <1>1, <1>2, <1>3, <2>1 DEF WriteFix, ComInv
<1>4. CASE \E b \in Blocks : First(copy, b) /\ copy' = WithFix(copy, b, CRFIX_REV) /\ applied'
  <2>1. PICK b \in Blocks : First(copy, b) /\ copy' = WithFix(copy, b, CRFIX_REV) /\ applied'
    BY <1>4
  <2>2. copy' \in File
    BY <1>2, <2>1, WithTypes
  <2>3. ~misread => ~reverse /\ Known(orig, copy')
    <3>1. SUFFICES ASSUME ~misread PROVE ~reverse /\ Known(orig, copy')
      OBVIOUS
    <3>2. copy = orig /\ ~reverse
      BY <3>1 DEF ComInv, WriteFix
    <3> QED BY <1>1, <2>1, <3>2, FirstIs DEF Revs
  <2>4. applied' \in BOOLEAN
    BY <1>2 DEF WriteFix
  <2>5. ComTypeOK'
    BY <1>1, <2>2, <2>4 DEF WriteFix, ComInv, ComTypeOK
  <2> QED BY <1>1, <2>3, <2>5 DEF WriteFix, ComInv
<1> QED BY <1>3, <1>4 DEF WriteFix

LEMMA StepInv == ASSUME ComInv, [Next]_vars PROVE ComInv'
<1>1. CASE UNCHANGED vars
  BY <1>1 DEF vars, history, ComInv, ComTypeOK
<1> QED BY <1>1, QuietInv, EraseInv, EraseOldInv, WriteFixInv DEF Next

LEMMA ComInvAlways == ComSpec => []ComInv
BY InitInv, StepInv, PTL DEF ComSpec

--------------------------------------------------------------------------

\* Every copy is a file of the model: the displacements written are words.
THEOREM ComTyped == ComSpec => []ComTypeOK
<1>1. ComInv => ComTypeOK
  BY DEF ComInv
<1> QED BY <1>1, ComInvAlways, PTL

\* Whatever the addresses and the program, win.com starts where it did.
THEOREM EntryStays == ComSpec => []EntryKept
<1>1. ComInv => EntryKept
  BY KnownIs DEF ComInv, ComTypeOK, EntryKept
<1> QED BY <1>1, ComInvAlways, PTL

\* Patching touches nothing but the place of the fix.
THEOREM ProgramStays == ComSpec => []ProgramKept
<1>1. ComInv => ProgramKept
  BY KnownIs DEF ComInv, ComTypeOK, ProgramKept
<1> QED BY <1>1, ComInvAlways, PTL

\* A -reverse gives back the original, if it has not met an old fix.
THEOREM ReverseRestores == ComSpec => []Reversed
<1>1. ComInv => Reversed
  BY DEF ComInv, Reversed
<1> QED BY <1>1, ComInvAlways, PTL

--------------------------------------------------------------------------
(* Updates                                                                 *)

Fixless(f) == \A b \in Blocks : f.block[b].what # "fix"
OneFix(f)  == \E b \in Blocks : Enters(f, b) /\ \A c \in Blocks \ {b} : f.block[c].what # "fix"

\* There is a place for the new fix where the old one was.
UpdateInv ==
  /\ ComTypeOK
  /\ Fixless(file) \/ OneFix(file)
  /\ pc = "look" => copy = file
  /\ pc = "write" => /\ Fixless(copy)
                     /\ IF Fixed(file) THEN Free(copy) # {} ELSE copy = file
  /\ pc = "done" => (Fixless(copy) \/ OneFix(copy)) /\ Updated

LEMMA FixlessIs == \A f : Fixless(f) => ~Fixed(f)
BY DEF Fixless, Fixed, Enters

LEMMA OneFixIs ==
  ASSUME NEW f, NEW b \in Blocks, Enters(f, b), \A c \in Blocks \ {b} : f.block[c].what # "fix"
  PROVE  OneFix(f) /\ Fixed(f) /\ Fix(f) = b
<1>1. \A c \in Blocks : Enters(f, c) => c = b
  BY DEF Enters
<1> QED BY <1>1 DEF OneFix, Fixed, Fix

\* wincom_writepatch on a file without a fix.
LEMMA PutIs ==
  ASSUME NEW f \in File, Fixless(f), NEW b \in Blocks
  PROVE  LET g == WithFix(f, b, CRFIX_REV) IN OneFix(g) /\ Fixed(g) /\ g.block[Fix(g)].rev = CRFIX_REV
<1> DEFINE a == good_addrs[b]
           w == Wrap(a + CRFIX_CODE_START - (COM_ORG + 3))
           x == Wrap(Target(f) - (a + Size(CRFIX_REV)))
           c0 == [what |-> "fix", rev |-> CRFIX_REV, jmp |-> x]
           g == WithFix(f, b, CRFIX_REV)
<1>1. w + 3 + COM_ORG = a + CRFIX_CODE_START
  <2>1. a \in Word /\ a >= COM_ORG /\ a + Size(CRFIX_REV) \in Word
    BY AddressIs, ComAssumption
  <2> QED BY <2>1 DEF Wrap, Word, COM_ORG, CRFIX_CODE_START, Size, CRFIX_REV
<1>2. g = [jmp |-> w, block |-> [f.block EXCEPT ![b] = c0]]
  BY DEF WithFix
<1>3. f.block \in [Blocks -> Content]
  BY DEF File
<1>4. c0.what = "fix" /\ c0.rev = CRFIX_REV
  OBVIOUS
<1> HIDE DEF a, w, x, c0, g
<1>5. g.jmp = w /\ g.block[b] = c0 /\ \A c \in Blocks \ {b} : g.block[c] = f.block[c]
  BY ONLY <1>2, <1>3, b \in Blocks
<1>6. Target(g) = good_addrs[b] + CRFIX_CODE_START
  BY ONLY <1>1, <1>5 DEF Target, a
<1>7. Enters(g, b) /\ \A c \in Blocks \ {b} : g.block[c].what # "fix"
  BY <1>4, <1>5, <1>6 DEF Enters, Fixless
<1>8. OneFix(g) /\ Fixed(g) /\ Fix(g) = b
  BY <1>7, OneFixIs
<1> QED BY <1>4, <1>5, <1>8 DEF g

\* wincom_erasepatch leaves no fix, and its place is free.
LEMMA ErasedIs ==
  ASSUME NEW f \in File, OneFix(f), NEW n
  PROVE  Fixless(WithoutFix(f, n)) /\ Free(WithoutFix(f, n)) # {}
<1>1. PICK b \in Blocks : Enters(f, b) /\ \A c \in Blocks \ {b} : f.block[c].what # "fix"
  BY DEF OneFix
<1>2. Fix(f) = b
  BY <1>1, OneFixIs
<1> DEFINE g == WithoutFix(f, n)
<1>3. g.block = [f.block EXCEPT ![b] = Zero]
  BY <1>2 DEF WithoutFix
<1>4. f.block \in [Blocks -> Content]
  BY DEF File
<1> HIDE DEF g
<1>5. g.block[b] = Zero /\ \A c \in Blocks \ {b} : g.block[c] = f.block[c]
  BY ONLY <1>3, <1>4, b \in Blocks
<1>6. Zero.what = "zero"
  BY DEF Zero
<1>7. Fixless(g)
  BY <1>1, <1>5, <1>6 DEF Fixless
<1>8. b \in Free(g)
  BY <1>5, <1>6 DEF Free
<1> QED BY <1>7, <1>8 DEF g

LEMMA UpdateInit == ASSUME Init PROVE UpdateInv
<1>1. orig \in Originals /\ ComTypeOK
  BY InitInv DEF Init, ComInv
<1>2. Fixless(file) \/ OneFix(file)
  <2>1. CASE file = orig
    BY <1>1, <2>1, OriginalIs DEF Fixless
  <2>2. CASE \E b \in Blocks : First(orig, b) /\ file = WithFix(orig, b, CRFIX_REV0)
    <3>1. PICK b \in Blocks : file = WithFix(orig, b, CRFIX_REV0)
      BY <2>2
    <3>2. HasFix(orig, b, CRFIX_REV0, file)
      BY <1>1, <3>1, FixIs DEF Revs
    <3>3. Enters(file, b) /\ \A c \in Blocks \ {b} : file.block[c].what # "fix"
      BY <1>1, <3>2, OriginalIs DEF HasFix
    <3> QED BY <3>3, OneFixIs
  <2> QED BY <2>1, <2>2 DEF Init
<1> QED BY <1>1, <1>2 DEF Init, UpdateInv

LEMMA UpdateNext == ASSUME UpdateInv, ComInv, ComInv', [Next]_vars PROVE UpdateInv'
<1>1. ComTypeOK' /\ ComTypeOK
  BY DEF ComInv
<1>2. CASE UNCHANGED vars
  <2>1. Updated' = Updated
    BY <1>2 DEF vars, Updated, Fixed, Fix, Enters, Target, Free
  <2>2. /\ Fixless(file)' = Fixless(file) /\ OneFix(file)' = OneFix(file)
        /\ Fixless(copy)' = Fixless(copy) /\ OneFix(copy)' = OneFix(copy)
        /\ Fixed(file)' = Fixed(file) /\ Free(copy)' = Free(copy)
    BY <1>2 DEF vars, Fixless, OneFix, Enters, Target, Fixed, Free
  <2> QED BY <1>1, <1>2, <2>1, <2>2 DEF vars, UpdateInv
<1>3. CASE Start
  BY <1>1, <1>3 DEF Start, UpdateInv
<1>4. CASE NothingThere \/ Refused
  BY <1>1, <1>4 DEF NothingThere, Refused, UpdateInv, Updated
<1>5. CASE BeginFix
  BY <1>1, <1>5 DEF BeginFix, UpdateInv, OneFix, Fixed
<1>6. CASE Present
  <2>1. Updated'
    BY <1>6 DEF Present, Newest, Updated, Fixed, Fix, CRFIX_REV, CRFIX_REV0
  <2> QED BY <1>1, <1>6, <2>1 DEF Present, UpdateInv
<1>7. CASE Erase
  <2>1. OneFix(file) /\ file \in File
    BY <1>1, <1>7, FixlessIs DEF Erase, Newest, UpdateInv, ComTypeOK
  <2>2. Fixless(copy')
    BY <1>7, <2>1, ErasedIs DEF Erase
  <2> QED BY <1>1, <1>7, <2>2 DEF Erase, UpdateInv, Updated
<1>8. CASE EraseOld
  <2>1. OneFix(file) /\ file \in File /\ Fixed(file)
    BY <1>1, <1>8, FixlessIs DEF EraseOld, Oldest, UpdateInv, ComTypeOK
  <2>2. Fixless(copy') /\ Free(copy') # {}
    BY <1>8, <2>1, ErasedIs DEF EraseOld
  <2> QED BY <1>1, <1>8, <2>1, <2>2 DEF EraseOld, UpdateInv
<1>9. CASE WriteFix
  <2>1. Fixless(copy) /\ ~Fixed(copy) /\ copy \in File
    BY <1>1, <1>9, FixlessIs DEF WriteFix, UpdateInv, ComTypeOK
  <2>2. CASE \E b \in Blocks : First(copy, b) /\ copy' = WithFix(copy, b, CRFIX_REV) /\ applied'
    <3>1. PICK b \in Blocks : copy' = WithFix(copy, b, CRFIX_REV)
      BY <2>2
    <3>2. OneFix(copy') /\ Fixed(copy') /\ copy'.block[Fix(copy')].rev = CRFIX_REV
      BY <2>1, <3>1, PutIs
    <3> QED BY <1>1, <1>9, <2>2, <3>2 DEF WriteFix, UpdateInv, Updated
  <2>3. CASE Free(copy) = {} /\ UNCHANGED <<copy, applied>>
    <3>1. ~Fixed(file) /\ copy = file
      BY <1>9, <2>3 DEF WriteFix, UpdateInv
    <3> QED BY <1>1, <1>9, <2>1, <2>3, <3>1 DEF WriteFix, UpdateInv, Updated
  <2> QED BY <1>9, <2>1, <2>2, <2>3 DEF WriteFix
<1>10. CASE Accept \/ Discard
  BY <1>1, <1>10 DEF Accept, Discard, UpdateInv
<1> QED BY <1>2, <1>3, <1>4, <1>5, <1>6, <1>7, <1>8, <1>9, <1>10 DEF Next

\* A call of patch_select_wincom with memory and a copy replaces an old fix
\* by the new one, and puts one in where there is none and a free place, for
\* any addresses and original and whatever was done to the file before.
THEOREM UpdatesFix == ComSpec => []Updated
<1>1. Init => UpdateInv
  BY UpdateInit
<1>2. UpdateInv /\ ComInv /\ ComInv' /\ [Next]_vars => UpdateInv'
  BY UpdateNext
<1>3. UpdateInv => Updated
  BY DEF UpdateInv, Updated
<1> QED BY <1>1, <1>2, <1>3, ComInvAlways, PTL DEF ComSpec
==============================================================================
