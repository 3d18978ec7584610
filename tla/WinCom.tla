------------------------------- MODULE WinCom -------------------------------
(***************************************************************************)
(* The patch of win.com (patch.c: patch_select_wincom, wincom_writepatch,  *)
(* wincom_erasepatch; crfix/crfix.h).  A block of code is put into a place *)
(* of zeroes, the jump the program starts with is turned to it, and the    *)
(* jump at its end goes where the program started before.  -reverse and    *)
(* the update of an old revision recover that address from the jump at the *)
(* end of the block, so they have to know how long the block is.           *)
(*                                                                         *)
(* The file is the displacement of its first jump and what the places the  *)
(* patch may use hold.  Addresses and displacements are 16 bits wide.  A   *)
(* file that does not start with a jump is left alone and not modelled.    *)
(***************************************************************************)
EXTENDS Integers, Sequences

CONSTANTS
  good_addrs, \* the addresses tried for the block, in this order
  Originals,  \* win.com as it comes with Windows, see File
  Failures,   \* the copy may not open, or there may be no memory
  MaxCalls    \* bound: how many times the program is called on the file

COM_ORG          == 256
CRFIX_CODE_START == 6
CRFIX_REV        == 1
CRFIX_REV0       == 0
Size(rev)        == IF rev = CRFIX_REV THEN 224 ELSE 144
Word             == {n \in Nat : n < 65536}
Wrap(n)          == n % 65536

Blocks  == DOMAIN good_addrs
Content == [what : {"zero", "code", "fix"}, rev : {CRFIX_REV0, CRFIX_REV}, jmp : Word]
File    == [jmp : Word, block : [Blocks -> Content]]
Zero    == [what |-> "zero", rev |-> 0, jmp |-> 0]

\* def_jmp: where the jump at the start of f goes.
Target(f) == f.jmp + 3 + COM_ORG

\* Whether the code before that address is the fix, in the place b.
Enters(f, b) == /\ f.block[b].what = "fix"
                /\ Target(f) = good_addrs[b] + CRFIX_CODE_START

Fixed(f) == \E b \in Blocks : Enters(f, b)
Fix(f)   == CHOOSE b \in Blocks : Enters(f, b)

\* The places are as long as the newest fix and do not overlap, and an
\* original has no fix, does not start in one of them and starts in itself.
ASSUME ComAssumption ==
  /\ good_addrs \in Seq(Word)
  /\ \A b, c \in Blocks : good_addrs[b] = good_addrs[c] => b = c
  /\ \A b \in Blocks : good_addrs[b] + Size(CRFIX_REV) \in Word /\ good_addrs[b] >= COM_ORG
  /\ Originals \subseteq File
  /\ \A f \in Originals : \A b \in Blocks :
       /\ f.block[b].what \in {"zero", "code"}
       /\ f.block[b].what = "zero" => f.block[b] = Zero
       /\ Target(f) # good_addrs[b] + CRFIX_CODE_START
  /\ \A f \in Originals : Target(f) \in Word /\ Target(f) >= COM_ORG + CRFIX_CODE_START
  /\ Failures \in BOOLEAN
  /\ MaxCalls \in Nat

--------------------------------------------------------------------------
(* Putting the fix in and taking it out                                    *)

\* The first place that is zeroes.
Free(f) == {b \in Blocks : f.block[b].what = "zero"}
First(f, b) == b \in Free(f) /\ \A c \in Free(f) : b <= c

\* Mutant: the jump back is counted from the start of the jump.
WithFix_Short(f, b, rev) ==
  [jmp   |-> Wrap(good_addrs[b] + CRFIX_CODE_START - (COM_ORG + 3)),
   block |-> [f.block EXCEPT ![b] =
                [what |-> "fix", rev |-> rev,
                 jmp |-> Wrap(Target(f) - (good_addrs[b] + Size(rev) - 3))]]]

\* wincom_writepatch: the fix in the place b.
WithFix(f, b, rev) ==
  [jmp   |-> Wrap(good_addrs[b] + CRFIX_CODE_START - (COM_ORG + 3)),
   block |-> [f.block EXCEPT ![b] =
                [what |-> "fix", rev |-> rev,
                 jmp |-> Wrap(Target(f) - (good_addrs[b] + Size(rev)))]]]

\* The displacement found at the end of a fix taken to be size bytes long:
\* behind an old one there are the zeroes of its place.
JumpAt(c, size) == IF size = Size(c.rev) THEN c.jmp ELSE 0

\* The address the fix of size bytes jumps to at its end.
Return(f, size) == JumpAt(f.block[Fix(f)], size) + good_addrs[Fix(f)] + size

\* Mutant: the code stays.
WithoutFix_Keeps(f, size) == [f EXCEPT !.jmp = Wrap(Return(f, size) - (COM_ORG + 3))]

\* wincom_erasepatch, for a fix of size bytes.
WithoutFix(f, size) ==
  [jmp |-> Wrap(Return(f, size) - (COM_ORG + 3)), block |-> [f.block EXCEPT ![Fix(f)] = Zero]]

\* Mutant: the byte of the revision is not looked at.
Newest_Any(f) == Fixed(f)

Newest(f) == Fixed(f) /\ f.block[Fix(f)].rev = CRFIX_REV
Oldest(f) == Fixed(f) /\ ~Newest(f)

--------------------------------------------------------------------------
VARIABLES
  file,     \* fp
  copy,     \* dstfile
  reverse,  \* PATCH_REVERSE
  pc,       \* "idle", "look", "write" or "done"
  applied, exists,
  refused,  \* history: there was no memory, or no copy, in this call
  calls,    \* calls so far
  orig,     \* history: win.com before it was ever patched
  last,     \* history: "forward" or "reverse", the last call that ended well
  misread   \* history: -reverse has met an old fix

history == <<orig, misread>>
vars == <<file, copy, reverse, pc, applied, exists, refused, calls, last, history>>

\* The file was never patched, or it was by an older version.
Init ==
  /\ orig \in Originals
  /\ \/ file = orig
     \/ \E b \in Blocks : First(orig, b) /\ file = WithFix(orig, b, CRFIX_REV0)
  /\ copy = file
  /\ reverse = FALSE
  /\ pc = "idle"
  /\ applied = FALSE
  /\ exists = FALSE
  /\ refused = FALSE
  /\ calls = 0
  /\ last = "none"
  /\ misread = FALSE

Start ==
  /\ pc = "idle"
  /\ calls < MaxCalls
  /\ calls' = calls + 1
  /\ reverse' \in BOOLEAN
  /\ copy' = file
  /\ applied' = FALSE
  /\ exists' = FALSE
  /\ refused' = FALSE
  /\ pc' = "look"
  /\ UNCHANGED <<file, last, history>>

\* There is no fix to take out.
NothingThere ==
  /\ pc = "look"
  /\ ~Fixed(file)
  /\ reverse
  /\ exists' = TRUE
  /\ pc' = "done"
  /\ UNCHANGED <<file, copy, reverse, applied, refused, calls, last, history>>

BeginFix ==
  /\ pc = "look"
  /\ ~Fixed(file)
  /\ ~reverse
  /\ pc' = "write"
  /\ UNCHANGED <<file, copy, reverse, applied, exists, refused, calls, last, history>>

\* The fix is there.
Present ==
  /\ pc = "look"
  /\ Newest(file)
  /\ ~reverse
  /\ exists' = TRUE
  /\ pc' = "done"
  /\ UNCHANGED <<file, copy, reverse, applied, refused, calls, last, history>>

Erase ==
  /\ pc = "look"
  /\ Newest(file)
  /\ reverse
  /\ copy' = WithoutFix(file, Size(CRFIX_REV))
  /\ applied' = TRUE
  /\ pc' = "done"
  /\ UNCHANGED <<file, reverse, exists, refused, calls, last, history>>

\* Mutant: the old fix is taken for a new one.
EraseOld_NewSize ==
  /\ pc = "look"
  /\ Oldest(file)
  /\ copy' = WithoutFix(file, Size(CRFIX_REV))
  /\ misread' = (misread \/ reverse)
  /\ pc' = "write"
  /\ UNCHANGED <<file, reverse, applied, exists, refused, calls, last, orig>>

\* An old fix is taken out and the new one put in, with -reverse too, which
\* takes the old one for one of the new size.
EraseOld ==
  /\ pc = "look"
  /\ Oldest(file)
  /\ copy' = WithoutFix(file, Size(IF reverse THEN CRFIX_REV ELSE CRFIX_REV0))
  /\ misread' = (misread \/ reverse)
  /\ pc' = "write"
  /\ UNCHANGED <<file, reverse, applied, exists, refused, calls, last, orig>>

\* The copy is read again.  Without a place for the fix it stays as it is
\* and is not reported.
WriteFix ==
  /\ pc = "write"
  /\ \/ /\ ~Fixed(copy)
        /\ \E b \in Blocks : First(copy, b) /\ copy' = WithFix(copy, b, CRFIX_REV)
        /\ applied' = TRUE
     \/ (Fixed(copy) \/ Free(copy) = {}) /\ UNCHANGED <<copy, applied>>
  /\ pc' = "done"
  /\ UNCHANGED <<file, reverse, exists, refused, calls, last, history>>

\* No memory, or the copy cannot be opened.
Refused ==
  /\ pc = "look"
  /\ Failures
  /\ refused' = TRUE
  /\ pc' = "done"
  /\ UNCHANGED <<file, copy, reverse, applied, exists, calls, last, history>>

\* The commit takes the copy if the patch is reported.
Accept ==
  /\ pc = "done"
  /\ applied
  /\ file' = copy
  /\ last' = IF reverse THEN "reverse" ELSE "forward"
  /\ pc' = "idle"
  /\ UNCHANGED <<copy, reverse, applied, exists, refused, calls, history>>

Discard ==
  /\ pc = "done"
  /\ pc' = "idle"
  /\ UNCHANGED <<file, copy, reverse, applied, exists, refused, calls, last, history>>

Next == \/ Start \/ NothingThere \/ BeginFix \/ Present \/ Erase \/ EraseOld
        \/ WriteFix \/ Refused \/ Accept \/ Discard

ComSpec == Init /\ [][Next]_vars

--------------------------------------------------------------------------
(* Properties                                                              *)

\* Types of the variables.
ComTypeOK ==
  /\ file \in File /\ copy \in File /\ orig \in Originals
  /\ reverse \in BOOLEAN /\ applied \in BOOLEAN /\ exists \in BOOLEAN
  /\ misread \in BOOLEAN /\ refused \in BOOLEAN
  /\ pc \in {"idle", "look", "write", "done"}
  /\ calls \in 0 .. MaxCalls
  /\ last \in {"none", "forward", "reverse"}

\* Where win.com goes on after the fix, or where it starts without one.
Reaches(f) ==
  Wrap(IF Fixed(f) THEN Return(f, Size(f.block[Fix(f)].rev)) ELSE Target(f))

\* However often it is patched, updated and reversed, win.com starts where
\* it did, through the fix or directly.
EntryKept == ~misread => Reaches(file) = Reaches(orig)

\* Outside the fix the program is what it was, and there is no second fix,
\* nor one that is not entered.
ProgramKept ==
  ~misread => \A b \in Blocks : Enters(file, b) \/ file.block[b] = orig.block[b]

\* README.md:132, Uninstall: a -reverse that was carried out gives back the
\* file as it was, whatever was done to it before.
Reversed == ~misread /\ last = "reverse" => file = orig

\* README.md:132: after a -reverse that was carried out there is no fix.
FixRemoved == last = "reverse" => ~Fixed(file)

\* README.md:104, "updated Dirty control registry patch": a call replaces an
\* old fix by the new one, and puts one in where there is none and a place.
Updated ==
  /\ pc = "done" /\ ~reverse /\ ~refused
  /\ IF Fixed(file) THEN file.block[Fix(file)].rev = CRFIX_REV0 ELSE Free(file) # {}
  => applied /\ Fixed(copy) /\ copy.block[Fix(copy)].rev = CRFIX_REV
=============================================================================
