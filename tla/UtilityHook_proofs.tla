------------------------- MODULE UtilityHook_proofs -------------------------
(***************************************************************************)
(* Proofs that the inductive invariant of UtilityHook holds in every       *)
(* reachable state, for any roles and any bound on the nesting; then that  *)
(* a delegated statement runs as the superuser, also inside another one,   *)
(* and that the handlers implement Impersonation.                          *)
(***************************************************************************)
EXTENDS UtilityHook, InductionLemmas, SequenceTheorems, TLAPS

-----------------------------------------------------------------------------
(* The stack after a push, a pop and a replacement of the top frame *)

\* A prefix of a sequence.
LEMMA PrefixFacts ==
  ASSUME NEW S, NEW s \in Seq(S), NEW n \in Nat, n <= Len(s)
  PROVE  /\ SubSeq(s, 1, n) \in Seq(S)
         /\ Len(SubSeq(s, 1, n)) = n
         /\ \A i \in 1..n : SubSeq(s, 1, n)[i] = s[i]
<1>1. SubSeq(s, 1, n) \in Seq(S)
  OBVIOUS
<1>2. Len(SubSeq(s, 1, n)) = n
  OBVIOUS
<1>3. \A i \in 1..n : SubSeq(s, 1, n)[i] = s[i]
  OBVIOUS
<1> QED
  BY <1>1, <1>2, <1>3

\* A nonempty stack has a top frame, and the frames below it are a stack.
LEMMA TopFacts ==
  ASSUME TypeOK, stack # <<>>
  PROVE  /\ Len(stack) \in Nat \ {0}
         /\ Top \in Frame
         /\ Below \in Seq(Frame)
         /\ Len(Below) = Len(stack) - 1
         /\ \A i \in 1..Len(stack) - 1 : Below[i] = stack[i]
<1>1. Len(stack) \in Nat \ {0}
  BY EmptySeq DEF TypeOK
<1>2. Top \in Frame
  BY <1>1 DEF Top, TypeOK
<1>3. /\ Below \in Seq(Frame)
      /\ Len(Below) = Len(stack) - 1
      /\ \A i \in 1..Len(stack) - 1 : Below[i] = stack[i]
  <2> DEFINE n == Len(stack) - 1
  <2>1. stack \in Seq(Frame) /\ n \in Nat /\ n <= Len(stack)
    BY <1>1 DEF TypeOK
  <2> HIDE DEF n
  <2>2. /\ SubSeq(stack, 1, n) \in Seq(Frame)
        /\ Len(SubSeq(stack, 1, n)) = n
        /\ \A i \in 1..n : SubSeq(stack, 1, n)[i] = stack[i]
    BY <2>1, PrefixFacts, Zenon
  <2> QED
    BY <2>2 DEF Below, n
<1> QED
  BY <1>1, <1>2, <1>3

\* Push adds one frame on top and leaves the others alone.
LEMMA PushFacts ==
  ASSUME TypeOK, NEW frame \in Frame, Push(frame)
  PROVE  /\ Len(stack) \in Nat
         /\ stack' \in Seq(Frame)
         /\ Len(stack') = Len(stack) + 1
         /\ stack'[Len(stack) + 1] = frame
         /\ \A i \in 1..Len(stack) : stack'[i] = stack[i]
BY AppendProperties DEF TypeOK, Push

\* Replace changes the top frame and leaves the others alone.
LEMMA ReplaceFacts ==
  ASSUME TypeOK, stack # <<>>, NEW frame \in Frame, Replace(frame)
  PROVE  /\ stack' \in Seq(Frame)
         /\ Len(stack') = Len(stack)
         /\ stack'[Len(stack)] = frame
         /\ \A i \in 1..Len(stack) - 1 : stack'[i] = stack[i]
<1>1. Len(stack) \in 1..Len(stack)
  BY TopFacts
<1> QED
  BY <1>1, ExceptSeq DEF TypeOK, Replace

-----------------------------------------------------------------------------
(* The shape of the stack *)

Shape == /\ WellFormed
         /\ Nesting
         /\ SavedRoles

\* The identity inside a frame is never less restricted than outside it.
LEMMA InsideFacts ==
  ASSUME RolesAssumption, outerRole \in Roles, NEW frame \in Frame
  PROVE  /\ Inside(frame) \in Identity
         /\ frame.entry \in Identity
         /\ frame.entry.sec \subseteq Inside(frame).sec
         /\ Inside(frame).sec = {} => Inside(frame) = [user |-> outerRole, sec |-> {}]
         /\ HoldsSwitch(frame) => Inside(frame).sec # {}
         /\ frame.kind = "definer" => Inside(frame).sec # {}
BY DEF RolesAssumption, Frame, Identity, Inside, Resumed, HoldsSwitch, SecFlags, StmtKinds

\* While no error is on its way the running code is at least as restricted as
\* every frame, and unrestricted code runs as the session's role.
LEMMA RunningFacts ==
  ASSUME RolesAssumption, IInv, ~raising
  PROVE  /\ Len(stack) \in Nat
         /\ Depths = 1..Len(stack)
         /\ \A i \in 1..Len(stack) : stack[i] \in Frame
         /\ Len(stack) = 0 => ident = [user |-> outerRole, sec |-> {}]
         /\ Len(stack) > 0 => ident = Inside(stack[Len(stack)])
         /\ \A i \in 1..Len(stack) : Inside(stack[i]).sec \subseteq ident.sec
         /\ ident.sec = {} => ident = [user |-> outerRole, sec |-> {}]
<1> DEFINE n == Len(stack)
<1>1. /\ n \in Nat
      /\ Depths = 1..n
      /\ \A i \in 1..n : stack[i] \in Frame
  BY EmptySeq DEF IInv, TypeOK, Depths
<1>2. /\ n = 0 => ident = [user |-> outerRole, sec |-> {}]
      /\ n > 0 => ident = Inside(stack[n])
  BY <1>1, EmptySeq DEF IInv, IdentityDiscipline, Top, TypeOK
<1>3. ASSUME NEW i \in 1..n
      PROVE  Inside(stack[i]).sec \subseteq ident.sec
  <2>1. CASE i = n
    BY <1>2, <1>1, <2>1
  <2>2. CASE i < n
    <3>1. n \in 1..n
      BY <1>1, <2>2
    <3>2. Inside(stack[i]).sec \subseteq stack[n].entry.sec
      BY <1>1, <2>2, <3>1 DEF IInv, Nesting
    <3>3. stack[n].entry.sec \subseteq Inside(stack[n]).sec
      BY <1>1, <3>1, InsideFacts DEF IInv, TypeOK
    <3> QED
      BY <1>1, <1>2, <3>2, <3>3
  <2> QED
    BY <1>1, <2>1, <2>2
<1>4. ident.sec = {} => ident = [user |-> outerRole, sec |-> {}]
  BY <1>1, <1>2, InsideFacts DEF IInv, TypeOK
<1> QED
  BY <1>1, <1>2, <1>3, <1>4

\* A change of the session's role shows only inside unrestricted frames.
LEMMA InsideNext ==
  ASSUME RolesAssumption, outerRole \in Roles, outerRole' \in Roles,
         NEW i, stack[i] \in Frame, stack'[i] = stack[i]
  PROVE  /\ Inside(stack[i])'.sec = Inside(stack[i]).sec
         /\ Inside(stack[i]).sec # {} => Inside(stack[i])' = Inside(stack[i])
         /\ outerRole' = outerRole => Inside(stack[i])' = Inside(stack[i])
<1>1. stack'[i].entry = stack[i].entry /\ (HoldsSwitch(stack[i])' <=> HoldsSwitch(stack[i]))
  BY DEF HoldsSwitch
<1>2. /\ Resumed(stack[i].entry)'.sec = Resumed(stack[i].entry).sec
      /\ Resumed(stack[i].entry).sec # {} =>
           Resumed(stack[i].entry)' = Resumed(stack[i].entry)
      /\ outerRole' = outerRole => Resumed(stack[i].entry)' = Resumed(stack[i].entry)
  BY <1>1 DEF Resumed
<1>3. CASE HoldsSwitch(stack[i])
  <2>1. Inside(stack[i])' = Inside(stack[i])
    BY <1>1, <1>3 DEF Inside
  <2>. QED
    BY <2>1
<1>4. CASE ~HoldsSwitch(stack[i]) /\ stack[i].kind = "definer"
  <2>1. Inside(stack[i])' = Inside(stack[i])
    BY <1>1, <1>4 DEF Inside
  <2>. QED
    BY <2>1
<1>5. CASE ~HoldsSwitch(stack[i]) /\ stack[i].kind # "definer"
  <2>1. /\ Inside(stack[i]) = Resumed(stack[i].entry)
        /\ Inside(stack[i])' = Resumed(stack[i].entry)'
    BY <1>1, <1>5 DEF Inside
  <2>. QED
    BY <1>2, <2>1
<1>. QED
  BY <1>3, <1>4, <1>5

\* Entering a frame under the current identity keeps the shape.
LEMMA ShapePush ==
  ASSUME RolesAssumption, IInv, ~raising, NEW frame \in Frame, Push(frame),
         frame.entry = ident,
         frame.kind \in StmtKinds <=> frame.pc # "body",
         ~frame.latch,
         frame.kind = "block" => frame.role = outerRole,
         UNCHANGED outerRole
  PROVE  Shape'
<1> DEFINE n == Len(stack)
<1>1. /\ n \in Nat
      /\ stack' \in Seq(Frame)
      /\ Len(stack') = n + 1
      /\ stack'[n + 1] = frame
      /\ \A i \in 1..n : stack'[i] = stack[i]
  BY PushFacts DEF IInv
<1>2. Depths = 1..n /\ Depths' = 1..(n + 1)
  BY <1>1 DEF Depths
<1>3. ASSUME NEW i \in 1..n
      PROVE  Inside(stack[i])' = Inside(stack[i])
  BY <1>1, <1>3 DEF Inside, Resumed
<1>4. /\ n = 0 => ident = [user |-> outerRole, sec |-> {}]
      /\ n > 0 => ident = Inside(stack[n])
      /\ \A i \in 1..n : Inside(stack[i]).sec \subseteq ident.sec
      /\ ident.sec = {} => ident = [user |-> outerRole, sec |-> {}]
  BY RunningFacts
<1>5. WellFormed'
  BY <1>1, <1>2 DEF IInv, WellFormed
<1>6. Nesting'
  <2> SUFFICES ASSUME NEW i \in 1..(n + 1)
               PROVE  /\ i = 1 => stack'[i].entry.sec = {}
                      /\ i > 1 => stack'[i].entry.sec = Inside(stack[i - 1])'.sec
                      /\ i > 1 /\ stack'[i].entry.sec # {}
                           => stack'[i].entry = Inside(stack[i - 1])'
                      /\ \A j \in 1..(n + 1) :
                           i < j => Inside(stack[i])'.sec \subseteq stack'[j].entry.sec
    BY <1>2 DEF Nesting
  <2>1. CASE i = n + 1
    BY <1>1, <1>3, <1>4, <2>1
  <2>2. CASE i \in 1..n
    <3>1. /\ i = 1 => stack[i].entry.sec = {}
          /\ i > 1 => stack[i].entry.sec = Inside(stack[i - 1]).sec
          /\ i > 1 /\ stack[i].entry.sec # {} => stack[i].entry = Inside(stack[i - 1])
          /\ \A j \in 1..n : i < j => Inside(stack[i]).sec \subseteq stack[j].entry.sec
      BY <1>2, <2>2 DEF IInv, Nesting
    <3>2. i > 1 => i - 1 \in 1..n
      BY <1>1, <2>2
    <3>3. ASSUME NEW j \in 1..(n + 1), i < j
          PROVE  Inside(stack[i])'.sec \subseteq stack'[j].entry.sec
      <4>1. CASE j = n + 1
        BY <1>1, <1>3, <1>4, <2>2, <4>1
      <4>2. CASE j \in 1..n
        BY <1>1, <1>3, <2>2, <3>1, <3>3, <4>2
      <4> QED
        BY <1>1, <4>1, <4>2
    <3> QED
      BY <1>1, <1>3, <2>2, <3>1, <3>2, <3>3
  <2> QED
    BY <1>1, <2>1, <2>2
<1>7. SavedRoles'
  BY <1>1, <1>2, <1>4 DEF IInv, SavedRoles
<1> QED
  BY <1>5, <1>6, <1>7 DEF Shape

\* Leaving the top frame keeps the shape, also when an aborted block puts an
\* earlier SET ROLE back.
LEMMA ShapePop ==
  ASSUME RolesAssumption, IInv, stack # <<>>, stack' = Below,
         \/ outerRole' = outerRole
         \/ Top.kind = "block" /\ outerRole' = Top.role
  PROVE  Shape'
<1> DEFINE n == Len(stack)
<1>1. /\ n \in Nat \ {0}
      /\ Top \in Frame
      /\ Len(stack') = n - 1
      /\ \A i \in 1..n - 1 : stack'[i] = stack[i]
  BY TopFacts DEF IInv
<1>2. Depths = 1..n /\ Depths' = 1..n - 1
  BY <1>1 DEF Depths
<1>3. \A i \in 1..n : stack[i] \in Frame
  BY DEF IInv, TypeOK
<1>4. outerRole \in Roles /\ outerRole' \in Roles
  BY <1>1 DEF IInv, TypeOK, Frame
<1>5. ASSUME NEW i \in 1..n - 1
      PROVE  /\ Inside(stack[i])'.sec = Inside(stack[i]).sec
             /\ Inside(stack[i]).sec # {} => Inside(stack[i])' = Inside(stack[i])
  <2>1. stack[i] \in Frame /\ stack'[i] = stack[i]
    BY <1>1, <1>3
  <2> QED
    BY <1>4, <2>1, InsideNext
<1>6. WellFormed'
  BY <1>1, <1>2 DEF IInv, WellFormed
<1>7. Nesting'
  <2> SUFFICES ASSUME NEW i \in 1..n - 1
               PROVE  /\ i = 1 => stack'[i].entry.sec = {}
                      /\ i > 1 => stack'[i].entry.sec = Inside(stack[i - 1])'.sec
                      /\ i > 1 /\ stack'[i].entry.sec # {}
                           => stack'[i].entry = Inside(stack[i - 1])'
                      /\ \A j \in 1..n - 1 :
                           i < j => Inside(stack[i])'.sec \subseteq stack'[j].entry.sec
    BY <1>2 DEF Nesting
  <2>1. /\ i = 1 => stack[i].entry.sec = {}
        /\ i > 1 => stack[i].entry.sec = Inside(stack[i - 1]).sec
        /\ i > 1 /\ stack[i].entry.sec # {} => stack[i].entry = Inside(stack[i - 1])
        /\ \A j \in 1..n : i < j => Inside(stack[i]).sec \subseteq stack[j].entry.sec
    BY <1>1, <1>2 DEF IInv, Nesting
  <2>2. i > 1 => i - 1 \in 1..n - 1
    BY <1>1
  <2>3. \A j \in 1..n - 1 : j \in 1..n /\ stack'[j] = stack[j]
    BY <1>1
  <2> QED
    BY <1>5, <2>1, <2>2, <2>3
<1>8. ASSUME NEW i \in 1..n - 1, Inside(stack[i]).sec # {}
      PROVE  outerRole' = outerRole
  <2>1. Inside(stack[i]).sec \subseteq stack[n].entry.sec
    <3>1. i \in 1..n /\ n \in 1..n /\ i < n
      BY <1>1
    <3> QED
      BY <1>2, <3>1 DEF IInv, Nesting
  <2>2. n \in Depths /\ stack[n] = Top
    BY <1>1, <1>2 DEF Top
  <2> QED
    BY <1>8, <2>1, <2>2 DEF IInv, SavedRoles
<1>9. SavedRoles'
  <2> SUFFICES ASSUME NEW i \in 1..n - 1
               PROVE  /\ (stack[i].kind = "block" /\ stack[i].entry.sec = {})
                           => stack[i].entry.user = stack[i].role
                      /\ (stack[i].kind = "block" /\ stack[i].entry.sec # {})
                           => stack[i].role = outerRole'
                      /\ (stack[i].kind = "definer" /\ stack[i].entry.sec = {})
                           => stack[i].entry.user = outerRole'
    BY <1>1, <1>2 DEF SavedRoles
  <2>1. /\ stack[i].entry.sec \subseteq Inside(stack[i]).sec
        /\ stack[i].kind = "definer" => Inside(stack[i]).sec # {}
    BY <1>1, <1>3, <1>4, InsideFacts
  <2>2. i \in Depths
    BY <1>1, <1>2
  <2> QED
    BY <1>8, <2>1, <2>2 DEF IInv, SavedRoles
<1> QED
  BY <1>6, <1>7, <1>9 DEF Shape

\* A step of the handler on top keeps the shape.
LEMMA ShapeReplace ==
  ASSUME RolesAssumption, IInv, stack # <<>>, NEW frame \in Frame, Replace(frame),
         Top.kind \in StmtKinds,
         frame.kind = Top.kind, frame.entry = Top.entry,
         frame.pc # "body",
         frame.latch => frame.pc \in ScriptPcs,
         UNCHANGED outerRole
  PROVE  Shape'
<1> DEFINE n == Len(stack)
<1>1. /\ n \in Nat \ {0}
      /\ stack[n] = Top
      /\ Len(stack') = n
      /\ stack'[n] = frame
      /\ \A i \in 1..n - 1 : stack'[i] = stack[i]
  BY TopFacts, ReplaceFacts DEF IInv, Top
<1>2. Depths = 1..n /\ Depths' = 1..n
  BY <1>1 DEF Depths
<1>3. \A i \in 1..n : stack[i] \in Frame
  BY DEF IInv, TypeOK
<1>4. ASSUME NEW i \in 1..n - 1
      PROVE  Inside(stack[i])' = Inside(stack[i])
  BY <1>1, <1>3, InsideNext DEF IInv, TypeOK
<1>5. WellFormed'
  BY <1>1, <1>2 DEF IInv, WellFormed
<1>6. Nesting'
  <2> SUFFICES ASSUME NEW i \in 1..n
               PROVE  /\ i = 1 => stack'[i].entry.sec = {}
                      /\ i > 1 => stack'[i].entry.sec = Inside(stack[i - 1])'.sec
                      /\ i > 1 /\ stack'[i].entry.sec # {}
                           => stack'[i].entry = Inside(stack[i - 1])'
                      /\ \A j \in 1..n :
                           i < j => Inside(stack[i])'.sec \subseteq stack'[j].entry.sec
    BY <1>2 DEF Nesting
  <2>1. /\ i = 1 => stack[i].entry.sec = {}
        /\ i > 1 => stack[i].entry.sec = Inside(stack[i - 1]).sec
        /\ i > 1 /\ stack[i].entry.sec # {} => stack[i].entry = Inside(stack[i - 1])
        /\ \A j \in 1..n : i < j => Inside(stack[i]).sec \subseteq stack[j].entry.sec
    BY <1>1, <1>2 DEF IInv, Nesting
  <2>2. \A j \in 1..n : stack'[j].entry = stack[j].entry
    BY <1>1
  <2>3. i > 1 => i - 1 \in 1..n - 1
    BY <1>1
  <2>4. \A j \in 1..n : i < j => i \in 1..n - 1
    BY <1>1
  <2> QED
    BY <1>4, <2>1, <2>2, <2>3, <2>4
<1>7. SavedRoles'
  <2>1. Top.kind # "block" /\ Top.kind # "definer"
    BY DEF StmtKinds
  <2> QED
    BY <1>1, <1>2, <2>1 DEF IInv, SavedRoles
<1> QED
  BY <1>5, <1>6, <1>7 DEF Shape

\* SET ROLE, which runs unrestricted, keeps the shape.
LEMMA ShapeSetRole ==
  ASSUME RolesAssumption, IInv, NEW role \in Roles, SetRole(role)
  PROVE  Shape'
<1> DEFINE n == Len(stack)
<1>1. /\ ~raising /\ stack # <<>>
      /\ ident.sec = {}
      /\ stack' = stack
      /\ outerRole' = role
  BY DEF SetRole, RunsCode, Running
<1>2. /\ n \in Nat
      /\ Depths = 1..n
      /\ Depths' = 1..n
      /\ \A i \in 1..n : stack[i] \in Frame
      /\ \A i \in 1..n : Inside(stack[i]).sec = {}
  BY <1>1, RunningFacts DEF Depths
<1>3. ASSUME NEW i \in 1..n
      PROVE  /\ Inside(stack[i])'.sec = {}
             /\ stack[i].entry.sec = {}
             /\ stack[i].kind # "definer"
  BY <1>1, <1>2, InsideNext, InsideFacts DEF IInv, TypeOK
<1>4. WellFormed'
  BY <1>1, <1>2 DEF IInv, WellFormed
<1>5. Nesting'
  <2> SUFFICES ASSUME NEW i \in 1..n
               PROVE  /\ i = 1 => stack[i].entry.sec = {}
                      /\ i > 1 => stack[i].entry.sec = Inside(stack[i - 1])'.sec
                      /\ i > 1 /\ stack[i].entry.sec # {}
                           => stack[i].entry = Inside(stack[i - 1])'
                      /\ \A j \in 1..n :
                           i < j => Inside(stack[i])'.sec \subseteq stack[j].entry.sec
    BY <1>1, <1>2 DEF Nesting
  <2>1. i > 1 => i - 1 \in 1..n
    BY <1>2
  <2> QED
    BY <1>3, <2>1
<1>6. SavedRoles'
  BY <1>1, <1>2, <1>3 DEF IInv, SavedRoles
<1> QED
  BY <1>4, <1>5, <1>6 DEF Shape

-----------------------------------------------------------------------------
(* Who holds the switch and the script latch after a change of the stack *)

\* A frame that is pushed without the switch or the latch changes no holder.
LEMMA HoldersPush ==
  ASSUME IInv, NEW frame \in Frame, Push(frame), ~HoldsSwitch(frame), ~frame.latch
  PROVE  /\ Holders' = Holders
         /\ Latches' = Latches
         /\ \A i \in Depths : stack'[i] = stack[i]
<1> DEFINE n == Len(stack)
<1>1. /\ n \in Nat
      /\ Depths = 1..n
      /\ Depths' = 1..n + 1
      /\ stack'[n + 1] = frame
      /\ \A i \in 1..n : stack'[i] = stack[i]
  BY PushFacts DEF IInv, Depths
<1>2. \A i \in 1..n : HoldsSwitch(stack[i])' <=> HoldsSwitch(stack[i])
  BY <1>1 DEF HoldsSwitch
<1>3. \A i \in {n + 1} : ~HoldsSwitch(stack[i])'
  BY <1>1 DEF HoldsSwitch
<1>4. Holders' = Holders
  BY <1>1, <1>2, <1>3 DEF Holders
<1>5. Latches' = Latches
  BY <1>1 DEF Latches
<1> QED
  BY <1>1, <1>4, <1>5

\* Popping takes the top frame from the holders.
LEMMA HoldersPop ==
  ASSUME IInv, stack # <<>>, stack' = Below
  PROVE  /\ Holders' = Holders \ {Len(stack)}
         /\ Latches' = Latches \ {Len(stack)}
         /\ Len(stack) \in Depths
         /\ \A i \in Depths : i # Len(stack) => stack'[i] = stack[i]
         /\ \A i \in Depths : i # Len(stack) => i \in Depths'
<1> DEFINE n == Len(stack)
<1>1. /\ n \in Nat \ {0}
      /\ Depths = 1..n
      /\ Depths' = 1..n - 1
      /\ \A i \in 1..n - 1 : stack'[i] = stack[i]
  BY TopFacts DEF IInv, Depths
<1>2. \A i \in 1..n - 1 : HoldsSwitch(stack[i])' <=> HoldsSwitch(stack[i])
  BY <1>1 DEF HoldsSwitch
<1>3. 1..n - 1 = (1..n) \ {n}
  BY <1>1
<1>4. Holders' = Holders \ {n}
  BY <1>1, <1>2, <1>3 DEF Holders
<1>5. Latches' = Latches \ {n}
  BY <1>1, <1>3 DEF Latches
<1>6. \A i \in Depths : i # n => i \in 1..n - 1
  BY <1>1
<1> QED
  BY <1>1, <1>4, <1>5, <1>6

\* A step of the top handler may take or give up the switch and the latch.
LEMMA HoldersReplace ==
  ASSUME IInv, stack # <<>>, NEW frame \in Frame, Replace(frame)
  PROVE  /\ Holders' = (Holders \ {Len(stack)})
                         \cup (IF HoldsSwitch(frame) THEN {Len(stack)} ELSE {})
         /\ Latches' = (Latches \ {Len(stack)})
                         \cup (IF frame.latch THEN {Len(stack)} ELSE {})
         /\ Len(stack) \in Depths
         /\ Depths' = Depths
         /\ stack'[Len(stack)] = frame
         /\ \A i \in Depths : i # Len(stack) => stack'[i] = stack[i]
<1> DEFINE n == Len(stack)
<1>1. /\ n \in Nat \ {0}
      /\ Depths = 1..n
      /\ Depths' = 1..n
      /\ stack'[n] = frame
      /\ \A i \in 1..n - 1 : stack'[i] = stack[i]
  BY TopFacts, ReplaceFacts DEF IInv, Depths
<1>2. \A i \in (1..n) \ {n} : stack'[i] = stack[i]
  BY <1>1
<1>3. \A i \in (1..n) \ {n} : HoldsSwitch(stack[i])' <=> HoldsSwitch(stack[i])
  BY <1>2 DEF HoldsSwitch
<1>4. \A i \in {n} : HoldsSwitch(stack[i])' <=> HoldsSwitch(frame)
  BY <1>1 DEF HoldsSwitch
<1>5. n \in 1..n
  BY <1>1
<1>6. Holders' = (Holders \ {n}) \cup (IF HoldsSwitch(frame) THEN {n} ELSE {})
  BY <1>1, <1>3, <1>4, <1>5 DEF Holders
<1>7. Latches' = (Latches \ {n}) \cup (IF frame.latch THEN {n} ELSE {})
  BY <1>1, <1>2, <1>5 DEF Latches
<1> QED
  BY <1>1, <1>2, <1>5, <1>6, <1>7

\* A step that leaves the flags, what they saved and their holders alone.
LEMMA QuietStep ==
  ASSUME IInv, Holders' = Holders, Latches' = Latches,
         \A i \in Holders : stack'[i].entry = stack[i].entry,
         UNCHANGED <<outerRole, prev, isSwitched, runningScript, switchLost, latchLost>>
  PROVE  SwitchOwnership' /\ PrevIsCallers' /\ ScriptLatch'
<1>1. SwitchOwnership' /\ ScriptLatch'
  BY DEF IInv, SwitchOwnership, ScriptLatch
<1>2. PrevIsCallers'
  BY DEF IInv, PrevIsCallers, Resumed
<1> QED
  BY <1>1, <1>2

\* The frame a handler point belongs to.
LEMMA HandlerFacts ==
  ASSUME IInv, stack # <<>>
  PROVE  /\ Len(stack) \in Depths
         /\ stack[Len(stack)] = Top
         /\ Top \in Frame
         /\ Top.kind \in StmtKinds <=> Top.pc # "body"
         /\ Top.latch => Top.kind \in StmtKinds /\ Top.pc \in ScriptPcs
         /\ Len(stack) \in Holders <=> HoldsSwitch(Top)
         /\ Len(stack) \in Latches <=> Top.latch
<1>1. /\ Len(stack) \in Depths
      /\ stack[Len(stack)] = Top
      /\ Top \in Frame
  BY TopFacts DEF IInv, Depths, Top
<1> QED
  BY <1>1 DEF IInv, WellFormed, Holders, Latches

\* The identity of the caller of the top frame, while no error is on its way,
\* is the identity inside the frame below.
LEMMA CallerFacts ==
  ASSUME RolesAssumption, IInv, stack # <<>>, stack' = Below, UNCHANGED outerRole,
         ident' = Resumed(Top.entry)
  PROVE  /\ IdentityDiscipline'
         /\ ident' \in Identity
<1> DEFINE n == Len(stack)
<1>1. /\ n \in Nat \ {0}
      /\ Top \in Frame
      /\ stack[n] = Top
      /\ stack' \in Seq(Frame)
      /\ Len(stack') = n - 1
      /\ \A i \in 1..n - 1 : stack'[i] = stack[i]
      /\ Depths = 1..n
  BY TopFacts DEF IInv, Depths, Top
<1>2. CASE n = 1
  <2>1. Top.entry.sec = {}
    BY <1>1, <1>2 DEF IInv, Nesting
  <2>2. stack' = <<>>
    BY <1>1, <1>2, EmptySeq
  <2> QED
    BY <2>1, <2>2, <1>1 DEF IdentityDiscipline, Resumed, Identity, IInv, TypeOK
<1>3. CASE n > 1
  <2>1. stack' # <<>> /\ Top' = stack[n - 1] /\ stack'[n - 1] = stack[n - 1]
        /\ stack[n - 1] \in Frame
    BY <1>1, <1>3 DEF Top, IInv, TypeOK
  <2>2. /\ Top.entry.sec = Inside(stack[n - 1]).sec
        /\ Top.entry.sec # {} => Top.entry = Inside(stack[n - 1])
    BY <1>1, <1>3 DEF IInv, Nesting
  <2>3. /\ Inside(stack[n - 1]) \in Identity
        /\ Inside(stack[n - 1]).sec = {}
             => Inside(stack[n - 1]) = [user |-> outerRole, sec |-> {}]
    BY <2>1, InsideFacts DEF IInv, TypeOK
  <2>4. Inside(Top)' = Inside(stack[n - 1])
    BY <2>1 DEF Inside, Resumed, HoldsSwitch
  <2>5. ident' = Inside(stack[n - 1])
    BY <2>2, <2>3 DEF Resumed
  <2> QED
    BY <2>1, <2>3, <2>4, <2>5 DEF IdentityDiscipline
<1> QED
  BY <1>1, <1>2, <1>3

-----------------------------------------------------------------------------
(* The shapes that steps have *)

\* Entering a block, a function or a statement.
LEMMA PushStep ==
  ASSUME RolesAssumption, IInv, ~raising, NEW frame \in Frame, Push(frame),
         frame.entry = ident,
         frame.kind \in StmtKinds <=> frame.pc # "body",
         ~frame.latch, ~HoldsSwitch(frame),
         frame.kind = "block" => frame.role = outerRole,
         ident' = Inside(frame),
         UNCHANGED <<outerRole, prev, isSwitched, runningScript, raising,
                     switchLost, latchLost>>
  PROVE  IInv'
<1>1. Shape'
  BY ShapePush
<1>2. SwitchOwnership' /\ PrevIsCallers' /\ ScriptLatch'
  BY HoldersPush, QuietStep DEF Holders
<1>3. stack' \in Seq(Frame) /\ stack' # <<>> /\ Top' = frame
  <2>1. /\ Len(stack) \in Nat
        /\ stack' \in Seq(Frame)
        /\ Len(stack') = Len(stack) + 1
        /\ stack'[Len(stack) + 1] = frame
    BY PushFacts DEF IInv
  <2>2. Len(stack') # 0
    BY <2>1
  <2> QED
    BY <2>1, <2>2, EmptySeq DEF Top
<1>4. TypeOK'
  BY <1>3, InsideFacts DEF IInv, TypeOK
<1>5. IdentityDiscipline'
  <2>1. Inside(Top)' = Inside(frame)
    BY <1>3 DEF Inside, Resumed, HoldsSwitch
  <2> QED
    BY <1>3, <2>1 DEF IdentityDiscipline
<1> QED
  BY <1>1, <1>2, <1>4, <1>5 DEF IInv, Shape

\* A handler goes on without taking or giving up the switch or the latch.
LEMMA HandlerStep ==
  ASSUME RolesAssumption, IInv, Running, NEW frame \in Frame, Replace(frame),
         Top.kind \in StmtKinds,
         frame.kind = Top.kind, frame.entry = Top.entry, frame.role = Top.role,
         frame.pc # "body",
         frame.latch = Top.latch, frame.latch => frame.pc \in ScriptPcs,
         HoldsSwitch(frame) <=> HoldsSwitch(Top),
         UNCHANGED <<ident, outerRole, prev, isSwitched, runningScript, raising,
                     switchLost, latchLost>>
  PROVE  IInv'
<1>1. Shape'
  BY ShapeReplace DEF Running
<1>2. /\ Holders' = Holders
      /\ Latches' = Latches
      /\ \A i \in Holders : stack'[i].entry = stack[i].entry
  <2> DEFINE n == Len(stack)
  <2>1. /\ Holders' = (Holders \ {n}) \cup (IF HoldsSwitch(frame) THEN {n} ELSE {})
        /\ Latches' = (Latches \ {n}) \cup (IF frame.latch THEN {n} ELSE {})
        /\ stack'[n] = frame
        /\ \A i \in Depths : i # n => stack'[i] = stack[i]
    BY HoldersReplace DEF Running
  <2>2. /\ stack[n] = Top
        /\ n \in Holders <=> HoldsSwitch(frame)
        /\ n \in Latches <=> frame.latch
    BY HandlerFacts DEF Running
  <2> HIDE DEF n
  <2>3. Holders' = Holders
    BY <2>1, <2>2
  <2>4. Latches' = Latches
    BY <2>1, <2>2
  <2>5. \A i \in Holders : stack'[i].entry = stack[i].entry
    BY <2>1, <2>2 DEF Holders
  <2>. QED
    BY <2>3, <2>4, <2>5
<1>3. SwitchOwnership' /\ PrevIsCallers' /\ ScriptLatch'
  BY <1>2, QuietStep
<1>4. stack' \in Seq(Frame) /\ stack' # <<>> /\ Top' = frame
  BY ReplaceFacts, TopFacts, EmptySeq DEF IInv, Running, Top
<1>5. TypeOK'
  BY <1>4 DEF IInv, TypeOK
<1>6. IdentityDiscipline'
  <2>1. Inside(Top)' = Inside(Top)
    BY <1>4 DEF Inside, Resumed, HoldsSwitch
  <2> QED
    BY <1>4, <2>1 DEF IdentityDiscipline, IInv, Running
<1> QED
  BY <1>1, <1>3, <1>5, <1>6 DEF IInv, Shape

\* Leaving a frame that holds nothing, back to the identity of its caller.
LEMMA PopStep ==
  ASSUME RolesAssumption, IInv, stack # <<>>, stack' = Below,
         ~HoldsSwitch(Top), ~Top.latch,
         ident' = Resumed(Top.entry),
         UNCHANGED <<outerRole, prev, isSwitched, runningScript, raising,
                     switchLost, latchLost>>
  PROVE  IInv'
<1>1. Shape'
  BY ShapePop
<1>2. /\ Holders' = Holders
      /\ Latches' = Latches
      /\ \A i \in Holders : stack'[i].entry = stack[i].entry
  BY HoldersPop, HandlerFacts DEF Holders
<1>3. SwitchOwnership' /\ PrevIsCallers' /\ ScriptLatch'
  BY <1>2, QuietStep
<1>4. IdentityDiscipline' /\ ident' \in Identity
  BY CallerFacts
<1>5. TypeOK'
  BY <1>4, TopFacts DEF IInv, TypeOK
<1> QED
  BY <1>1, <1>3, <1>4, <1>5 DEF IInv, Shape

-----------------------------------------------------------------------------
(* Every step keeps the invariant *)

\* The invariant holds at first.
LEMMA InitIInv == ASSUME RolesAssumption, Init PROVE IInv
<1>1. TypeOK
  BY EmptySeq DEF Init, TypeOK, Identity
<1>2. Depths = {}
  BY DEF Init, Depths
<1> QED
  BY <1>1, <1>2 DEF Init, IInv, SwitchOwnership, PrevIsCallers, IdentityDiscipline,
     ScriptLatch, WellFormed, Nesting, SavedRoles, Holders, Latches

\* A new frame is a frame.
LEMMA NewFrameFacts ==
  ASSUME TypeOK, NEW kind \in FrameKinds, NEW pc \in Pcs, NEW role \in Roles
  PROVE  NewFrame(kind, pc, role) \in Frame
BY DEF TypeOK, NewFrame, Frame

\* A transaction, savepoint or exception block begins.
LEMMA BeginBlockStep ==
  ASSUME RolesAssumption, IInv, BeginBlock
  PROVE  IInv'
<1> DEFINE frame == NewFrame("block", "body", outerRole)
<1>1. frame \in Frame
  BY NewFrameFacts DEF IInv, TypeOK, FrameKinds, Pcs, CodePcs
<1>2. /\ ~HoldsSwitch(frame)
      /\ frame.kind \notin StmtKinds
      /\ frame.entry = ident /\ frame.role = outerRole /\ ~frame.latch
      /\ frame.pc = "body" /\ frame.kind = "block"
  BY DEF NewFrame, HoldsSwitch, StmtKinds
<1>3. Inside(frame) = ident
  <2>1. Inside(frame) = Resumed(ident)
    BY <1>2 DEF Inside
  <2>2. ident.sec = {} => ident = [user |-> outerRole, sec |-> {}]
    BY RunningFacts DEF BeginBlock
  <2> QED
    BY <2>1, <2>2 DEF Resumed
<1> HIDE DEF frame
<1> QED
  BY <1>1, <1>2, <1>3, PushStep DEF BeginBlock, frame

\* A SECURITY DEFINER function is called.
LEMMA BeginDefinerStep ==
  ASSUME RolesAssumption, IInv, NEW role \in Roles, BeginDefiner(role)
  PROVE  IInv'
<1> DEFINE frame == NewFrame("definer", "body", role)
<1>1. frame \in Frame
  BY NewFrameFacts DEF IInv, FrameKinds, Pcs, CodePcs
<1>2. /\ ~HoldsSwitch(frame)
      /\ frame.kind \notin StmtKinds
      /\ frame.entry = ident /\ frame.role = role /\ ~frame.latch
      /\ frame.pc = "body" /\ frame.kind = "definer"
  BY DEF NewFrame, HoldsSwitch, StmtKinds
<1>3. Inside(frame) = [user |-> role, sec |-> ident.sec \cup {"local_userid_change"}]
  BY <1>2 DEF Inside
<1> HIDE DEF frame
<1> QED
  BY <1>1, <1>2, <1>3, PushStep DEF BeginDefiner, RunsCode, Running, frame

\* A utility statement enters the hook.
LEMMA BeginStatementStep ==
  ASSUME RolesAssumption, IInv, NEW kind \in StmtKinds, BeginStatement(kind)
  PROVE  IInv'
<1> DEFINE pc == IF kind = "passthrough" THEN "chain" ELSE "switch"
           frame == NewFrame(kind, pc, outerRole)
<1>1. frame \in Frame
  BY NewFrameFacts DEF IInv, TypeOK, FrameKinds, Pcs, CodePcs
<1>2. /\ ~HoldsSwitch(frame)
      /\ frame.kind = kind /\ frame.kind # "block" /\ frame.kind # "definer"
      /\ frame.entry = ident /\ ~frame.latch
      /\ frame.pc # "body"
  BY DEF NewFrame, HoldsSwitch, StmtKinds, SwitchedPcs
<1>3. Inside(frame) = ident
  <2>1. Inside(frame) = Resumed(ident)
    BY <1>2 DEF Inside
  <2>2. ident.sec = {} => ident = [user |-> outerRole, sec |-> {}]
    BY RunningFacts DEF BeginStatement, RunsCode, Running
  <2> QED
    BY <2>1, <2>2 DEF Resumed
<1>4. Push(frame)
  BY DEF BeginStatement
<1> HIDE DEF frame
<1> QED
  BY <1>1, <1>2, <1>3, <1>4, PushStep DEF BeginStatement, RunsCode, Running

\* SET ROLE outside of any switch.
LEMMA SetRoleStep ==
  ASSUME RolesAssumption, IInv, NEW role \in Roles, SetRole(role)
  PROVE  IInv'
<1>1. Shape'
  BY ShapeSetRole
<1>2. /\ ~raising /\ stack # <<>> /\ stack' = stack
      /\ ident.sec = {} /\ ident' = [user |-> role, sec |-> {}]
      /\ outerRole' = role
      /\ UNCHANGED <<prev, isSwitched, runningScript, raising, switchLost, latchLost>>
  BY DEF SetRole, RunsCode, Running
<1>3. /\ Depths = 1..Len(stack)
      /\ \A i \in Depths : stack[i] \in Frame /\ Inside(stack[i]).sec = {}
  BY <1>2, RunningFacts
<1>4. Holders = {}
  BY <1>3, InsideFacts DEF Holders, IInv, TypeOK
<1>5. Holders' = {} /\ Latches' = Latches /\ Depths' = Depths
  BY <1>2, <1>4 DEF Holders, Latches, Depths, HoldsSwitch
<1>6. SwitchOwnership' /\ PrevIsCallers' /\ ScriptLatch'
  BY <1>2, <1>4, <1>5, QuietStep DEF IInv, SwitchOwnership, PrevIsCallers, ScriptLatch
<1>7. TypeOK'
  BY <1>2 DEF IInv, TypeOK, Identity
<1>8. IdentityDiscipline'
  <2>1. Top \in Frame /\ Inside(Top).sec = {} /\ Len(stack) \in Depths
    BY <1>2, <1>3, HandlerFacts
  <2>2. Top' = Top
    BY <1>2 DEF Top
  <2>3. ~HoldsSwitch(Top) /\ Top.kind # "definer"
    BY <2>1, InsideFacts DEF IInv, TypeOK
  <2>4. Inside(Top) = Resumed(Top.entry)
    BY <2>3 DEF Inside
  <2>5. Top.entry.sec = {}
    BY <2>1, <2>4 DEF Resumed
  <2>6. Inside(Top)' = [user |-> role, sec |-> {}]
    BY <1>2, <2>2, <2>3, <2>5 DEF Inside, Resumed, HoldsSwitch
  <2> QED
    BY <1>2, <2>6 DEF IdentityDiscipline
<1> QED
  BY <1>1, <1>6, <1>7, <1>8 DEF IInv, Shape

\* A block ends without an error.
LEMMA EndBlockStep ==
  ASSUME RolesAssumption, IInv, EndBlock
  PROVE  IInv'
<1>1. ~HoldsSwitch(Top) /\ ~Top.latch
  BY HandlerFacts DEF EndBlock, Running, HoldsSwitch, StmtKinds
<1>2. ident = Resumed(Top.entry)
  BY <1>1 DEF EndBlock, Running, IInv, IdentityDiscipline, Inside
<1> QED
  BY <1>1, <1>2, PopStep DEF EndBlock, Running

\* A SECURITY DEFINER function returns.
LEMMA EndDefinerStep ==
  ASSUME RolesAssumption, IInv, EndDefiner
  PROVE  IInv'
<1>1. ~HoldsSwitch(Top) /\ ~Top.latch
  BY HandlerFacts DEF EndDefiner, Running, HoldsSwitch, StmtKinds
<1>2. Top.entry = Resumed(Top.entry)
  <2>1. Top.entry \in Identity
    BY HandlerFacts DEF EndDefiner, Running, Frame
  <2>2. Top.entry.sec = {} => Top.entry.user = outerRole
    BY HandlerFacts DEF EndDefiner, Running, IInv, SavedRoles
  <2> QED
    BY <2>1, <2>2 DEF Resumed, Identity
<1> QED
  BY <1>1, <1>2, PopStep DEF EndDefiner, Running

\* The handler of the top frame goes to another point.
LEMMA GotoStep ==
  ASSUME RolesAssumption, IInv, Running, NEW pc \in Pcs, Goto(pc),
         Top.kind \in StmtKinds, pc # "body",
         Top.latch => pc \in ScriptPcs,
         Top.pc \in SwitchedPcs <=> pc \in SwitchedPcs,
         UNCHANGED <<ident, outerRole, prev, isSwitched, runningScript, raising,
                     switchLost, latchLost>>
  PROVE  IInv'
<1> DEFINE frame == [Top EXCEPT !.pc = pc]
<1>1. Top \in Frame
  BY HandlerFacts DEF Running
<1>2. /\ frame \in Frame
      /\ frame.kind = Top.kind /\ frame.entry = Top.entry /\ frame.role = Top.role
      /\ frame.latch = Top.latch /\ frame.pc = pc /\ frame.already = Top.already
  BY <1>1 DEF Frame
<1>3. Replace(frame)
  BY DEF Goto
<1>4. HoldsSwitch(frame) <=> HoldsSwitch(Top)
  BY <1>2 DEF HoldsSwitch
<1> HIDE DEF frame
<1> QED
  BY <1>1, <1>2, <1>3, <1>4, HandlerStep

\* A handler switches, or finds the flag up.
LEMMA SwitchStep ==
  ASSUME RolesAssumption, IInv, Switch
  PROVE  IInv'
<1> DEFINE n == Len(stack)
           pc == IF Top.pc = "reswitch" THEN "after_script"
                 ELSE IF Top.kind = "create_ext" THEN "global_script" ELSE "util"
           frame == [Top EXCEPT !.already = isSwitched, !.pc = pc]
<1>1. /\ Top \in Frame /\ n \in Depths /\ stack[n] = Top
      /\ Top.kind \in StmtKinds /\ ~Top.latch
      /\ ~HoldsSwitch(Top) /\ n \notin Holders /\ n \notin Latches
      /\ ~raising /\ stack # <<>>
  BY HandlerFacts DEF Switch, Running, HoldsSwitch, SwitchedPcs, ScriptPcs
<1>2. pc \in SwitchedPcs /\ pc \in Pcs /\ pc # "body"
  BY DEF SwitchedPcs, Pcs
<1>3. Replace(frame)
  BY DEF Switch, SwitchToSuperuser
<1> HIDE DEF pc
<1>4. /\ frame \in Frame
      /\ frame.kind = Top.kind /\ frame.entry = Top.entry /\ frame.role = Top.role
      /\ frame.latch = Top.latch /\ frame.pc = pc /\ frame.already = isSwitched
  BY <1>1, <1>2 DEF Frame, IInv, TypeOK
<1>5. HoldsSwitch(frame) <=> ~isSwitched
  BY <1>1, <1>2, <1>4 DEF HoldsSwitch
<1> HIDE DEF frame
<1>6. CASE isSwitched
  <2>1. UNCHANGED <<ident, outerRole, prev, isSwitched, runningScript, raising,
                    switchLost, latchLost>>
    BY <1>6 DEF Switch, SwitchToSuperuser
  <2> QED
    BY <1>1, <1>2, <1>3, <1>4, <1>5, <1>6, <2>1, HandlerStep DEF Running
<1>7. CASE ~isSwitched
  <2>1. /\ isSwitched' = TRUE /\ prev' = ident
        /\ ident' = [user |-> SupautilsSuperuser, sec |-> ident.sec \cup SecFlags]
        /\ UNCHANGED <<outerRole, runningScript, raising, switchLost, latchLost>>
    BY <1>7 DEF Switch, SwitchToSuperuser
  <2>2. Holders = {} /\ ~switchLost
    BY <1>7 DEF IInv, SwitchOwnership
  <2>3. /\ Holders' = {n} /\ Latches' = Latches
        /\ stack'[n] = frame /\ Depths' = Depths
    BY <1>1, <1>3, <1>4, <1>5, <1>7, <2>2, HoldersReplace
  <2>4. ident = Resumed(Top.entry)
    BY <1>1 DEF IInv, IdentityDiscipline, Inside, StmtKinds
  <2>5. Shape'
    BY <1>1, <1>2, <1>3, <1>4, <2>1, ShapeReplace
  <2>6. SwitchOwnership' /\ ScriptLatch'
    BY <2>1, <2>2, <2>3 DEF IInv, SwitchOwnership, ScriptLatch
  <2>7. PrevIsCallers'
    BY <1>4, <2>1, <2>3, <2>4 DEF PrevIsCallers, Resumed
  <2>8. stack' \in Seq(Frame) /\ stack' # <<>> /\ Top' = frame
    BY <1>1, <1>3, <1>4, ReplaceFacts, TopFacts, EmptySeq DEF IInv, Top
  <2>9. TypeOK'
    BY <2>1, <2>8 DEF IInv, TypeOK, Identity, RolesAssumption
  <2>10. IdentityDiscipline'
    <3>1. Inside(Top)' = [user |-> SupautilsSuperuser, sec |-> frame.entry.sec \cup SecFlags]
      <4>1. HoldsSwitch(Top)'
        BY <1>5, <1>7, <2>8 DEF HoldsSwitch
      <4> QED
        BY <2>8, <4>1 DEF Inside, HoldsSwitch, StmtKinds
    <3>2. ident.sec = frame.entry.sec
      BY <1>4, <2>4, <1>1 DEF Resumed, Frame, Identity
    <3> QED
      BY <2>1, <2>8, <3>1, <3>2 DEF IdentityDiscipline
  <2> QED
    BY <2>5, <2>6, <2>7, <2>9, <2>10 DEF IInv, Shape
<1> QED
  BY <1>6, <1>7

\* The lookup of the superuser fails after the flag is up.
LEMMA SwitchFailsStep ==
  ASSUME RolesAssumption, IInv, SwitchFails
  PROVE  IInv'
<1> DEFINE n == Len(stack)
           frame == [Top EXCEPT !.already = FALSE]
<1>1. /\ Top \in Frame /\ n \in Depths /\ stack[n] = Top
      /\ Top.kind \in StmtKinds /\ ~Top.latch /\ Top.pc # "body"
      /\ n \notin Latches /\ stack # <<>>
      /\ Top.pc \notin SwitchedPcs
  BY HandlerFacts DEF SwitchFails, Running, SwitchedPcs, ScriptPcs
<1>2. Replace(frame)
  BY DEF SwitchFails
<1>3. /\ frame \in Frame
      /\ frame.kind = Top.kind /\ frame.entry = Top.entry
      /\ frame.latch = Top.latch /\ frame.pc = Top.pc
  BY <1>1 DEF Frame
<1>4. ~HoldsSwitch(frame)
  BY <1>1, <1>3 DEF HoldsSwitch
<1> HIDE DEF frame
<1>5. Holders = {} /\ ~isSwitched
  BY DEF SwitchFails, IInv, SwitchOwnership
<1>6. Holders' = {} /\ Latches' = Latches
  <2>1. /\ Holders' = (Holders \ {n}) \cup (IF HoldsSwitch(frame) THEN {n} ELSE {})
        /\ Latches' = (Latches \ {n}) \cup (IF frame.latch THEN {n} ELSE {})
    BY <1>1, <1>2, <1>3, HoldersReplace
  <2>2. ~frame.latch
    BY <1>1, <1>3
  <2> HIDE DEF n
  <2>3. Holders' = {}
    BY <1>4, <1>5, <2>1
  <2>4. Latches' = Latches
    BY <1>1, <2>1, <2>2
  <2>. QED
    BY <2>3, <2>4
<1>7. /\ isSwitched' /\ raising' /\ switchLost'
      /\ isSwitched' = TRUE /\ raising' = TRUE /\ switchLost' = TRUE
      /\ UNCHANGED <<ident, outerRole, prev, runningScript, latchLost>>
  BY DEF SwitchFails
<1>8. Shape'
  BY <1>1, <1>2, <1>3, <1>7, ShapeReplace
<1>9. SwitchOwnership' /\ PrevIsCallers' /\ ScriptLatch' /\ IdentityDiscipline'
  BY <1>6, <1>7 DEF IInv, SwitchOwnership, PrevIsCallers, ScriptLatch, IdentityDiscipline
<1>10. TypeOK'
  BY <1>1, <1>2, <1>3, <1>7, ReplaceFacts DEF IInv, TypeOK
<1> QED
  BY <1>8, <1>9, <1>10 DEF IInv, Shape

\* Entering or leaving run_custom_script, past its guard.
LEMMA LatchStep ==
  ASSUME RolesAssumption, IInv, Running, NEW frame \in Frame, Replace(frame),
         Top.kind \in StmtKinds,
         frame.kind = Top.kind, frame.entry = Top.entry, frame.role = Top.role,
         frame.already = Top.already,
         Top.pc \in SwitchedPcs, frame.pc \in SwitchedPcs,
         frame.latch => frame.pc \in ScriptPcs,
         runningScript' = frame.latch,
         frame.latch => ~runningScript,
         ~frame.latch => Top.latch,
         UNCHANGED <<ident, outerRole, prev, isSwitched, raising, switchLost, latchLost>>
  PROVE  IInv'
<1> DEFINE n == Len(stack)
<1>1. /\ Top \in Frame /\ n \in Depths /\ stack[n] = Top
      /\ n \in Latches <=> Top.latch
      /\ n \in Holders <=> HoldsSwitch(Top)
  BY HandlerFacts DEF Running
<1>2. HoldsSwitch(frame) <=> HoldsSwitch(Top)
  BY DEF HoldsSwitch
<1>3. /\ Holders' = Holders
      /\ \A i \in Holders : stack'[i].entry = stack[i].entry
      /\ Latches' = (Latches \ {n}) \cup (IF frame.latch THEN {n} ELSE {})
  BY <1>1, <1>2, HoldersReplace DEF Running, Holders
<1>4. Shape'
  BY ShapeReplace DEF Running, SwitchedPcs
<1>5. SwitchOwnership' /\ PrevIsCallers'
  BY <1>3 DEF IInv, SwitchOwnership, PrevIsCallers, Resumed
<1>6. ScriptLatch'
  BY <1>1, <1>3 DEF IInv, ScriptLatch
<1>7. stack' \in Seq(Frame) /\ stack' # <<>> /\ Top' = frame
  BY ReplaceFacts, TopFacts, EmptySeq DEF IInv, Running, Top
<1>8. TypeOK'
  BY <1>7 DEF IInv, TypeOK, Frame
<1>9. IdentityDiscipline'
  <2>1. Inside(Top)' = Inside(Top)
    BY <1>2, <1>7 DEF Inside, Resumed, HoldsSwitch
  <2> QED
    BY <1>7, <2>1 DEF IdentityDiscipline, IInv, Running
<1> QED
  BY <1>4, <1>5, <1>6, <1>8, <1>9 DEF IInv, Shape

\* The custom scripts, run or skipped.
LEMMA ScriptSteps ==
  ASSUME RolesAssumption, IInv, StartScript \/ SkipScript \/ FinishScript
  PROVE  IInv'
<1>1. Running /\ Top.pc \in ScriptPcs /\ Top.kind \in StmtKinds /\ Top \in Frame
  BY HandlerFacts DEF StartScript, SkipScript, FinishScript, Running, ScriptPcs
<1>2. AfterScript(Top.pc) \in SwitchedPcs \cap Pcs /\ Top.pc \in SwitchedPcs
  BY <1>1 DEF AfterScript, SwitchedPcs, ScriptPcs, Pcs
<1>3. CASE StartScript
  <2> DEFINE frame == [Top EXCEPT !.latch = TRUE]
  <2>1. /\ frame \in Frame
        /\ frame.kind = Top.kind /\ frame.entry = Top.entry /\ frame.role = Top.role
        /\ frame.latch /\ frame.latch = TRUE
        /\ frame.pc = Top.pc /\ frame.already = Top.already
    BY <1>1 DEF Frame
  <2>2. Replace(frame)
    BY <1>3 DEF StartScript
  <2> HIDE DEF frame
  <2> QED
    BY <1>1, <1>2, <1>3, <2>1, <2>2, LatchStep DEF StartScript
<1>4. CASE SkipScript
  <2>1. Goto(AfterScript(Top.pc)) /\ ~Top.latch
    BY <1>4 DEF SkipScript
  <2> QED
    BY <1>1, <1>2, <1>4, <2>1, GotoStep DEF SkipScript, SwitchedPcs
<1>5. CASE FinishScript
  <2> DEFINE frame == [Top EXCEPT !.latch = FALSE, !.pc = AfterScript(Top.pc)]
  <2>1. /\ frame \in Frame
        /\ frame.kind = Top.kind /\ frame.entry = Top.entry /\ frame.role = Top.role
        /\ ~frame.latch /\ frame.latch = FALSE
        /\ frame.pc = AfterScript(Top.pc) /\ frame.already = Top.already
    BY <1>1, <1>2 DEF Frame
  <2>2. Replace(frame)
    BY <1>5 DEF FinishScript
  <2> HIDE DEF frame
  <2> QED
    BY <1>1, <1>2, <1>5, <2>1, <2>2, LatchStep DEF FinishScript
<1> QED
  BY <1>3, <1>4, <1>5

\* switch_to_original_role by the handler that switched brings back the identity
\* its statement was called with, and nobody holds the switch after it.
LEMMA RestoreFacts ==
  ASSUME RolesAssumption, IInv, stack # <<>>, HoldsSwitch(Top),
         SwitchToOriginalRole(Top.already)
  PROVE  /\ ident' = Resumed(Top.entry)
         /\ ident' \in Identity
         /\ isSwitched' = FALSE
         /\ ~switchLost
         /\ Holders = {Len(stack)}
<1>1. Len(stack) \in Holders /\ stack[Len(stack)] = Top /\ Top \in Frame
  BY HandlerFacts
<1>2. prev = Resumed(Top.entry)
  BY <1>1 DEF IInv, PrevIsCallers
<1>3. Resumed(Top.entry) \in Identity
  BY <1>1 DEF IInv, TypeOK, Resumed, Frame, Identity
<1>4. ~switchLost /\ Holders = {Len(stack)}
  BY <1>1 DEF IInv, SwitchOwnership
<1>5. ~Top.already
  BY DEF HoldsSwitch
<1> QED
  BY <1>2, <1>3, <1>4, <1>5 DEF SwitchToOriginalRole

\* A handler gives the switch up and goes on as the caller.
LEMMA RestoreStep ==
  ASSUME RolesAssumption, IInv, Running, NEW pc \in Pcs, Goto(pc),
         HoldsSwitch(Top), ~Top.latch, pc \notin SwitchedPcs, pc # "body",
         SwitchToOriginalRole(Top.already),
         UNCHANGED <<outerRole, prev, runningScript, raising, switchLost, latchLost>>
  PROVE  IInv'
<1> DEFINE n == Len(stack)
           frame == [Top EXCEPT !.pc = pc]
<1>1. /\ Top \in Frame /\ n \in Depths /\ stack[n] = Top /\ stack # <<>> /\ ~raising
      /\ n \notin Latches /\ Top.kind \in StmtKinds
  BY HandlerFacts DEF Running, HoldsSwitch
<1>2. /\ frame \in Frame
      /\ frame.kind = Top.kind /\ frame.entry = Top.entry
      /\ frame.latch = Top.latch /\ frame.pc = pc
  BY <1>1 DEF Frame
<1>3. Replace(frame) /\ ~HoldsSwitch(frame)
  BY <1>2 DEF Goto, HoldsSwitch
<1> HIDE DEF frame
<1>4. /\ ident' = Resumed(Top.entry) /\ ident' \in Identity /\ isSwitched' = FALSE
      /\ ~switchLost /\ Holders = {n}
  BY <1>1, RestoreFacts
<1>5. Holders' = {} /\ Latches' = Latches
  BY <1>1, <1>2, <1>3, <1>4, HoldersReplace
<1>6. Shape'
  BY <1>1, <1>2, <1>3, ShapeReplace
<1>7. SwitchOwnership' /\ PrevIsCallers' /\ ScriptLatch'
  BY <1>4, <1>5 DEF IInv, SwitchOwnership, PrevIsCallers, ScriptLatch
<1>8. stack' \in Seq(Frame) /\ stack' # <<>> /\ Top' = frame
  BY <1>1, <1>2, <1>3, ReplaceFacts, TopFacts, EmptySeq DEF IInv, Top
<1>9. TypeOK'
  BY <1>4, <1>8 DEF IInv, TypeOK
<1>10. IdentityDiscipline'
  <2>1. ~HoldsSwitch(Top)' /\ Top'.kind # "definer"
    BY <1>1, <1>2, <1>3, <1>8 DEF HoldsSwitch, StmtKinds
  <2>2. Inside(Top)' = Resumed(Top.entry)
    BY <1>2, <1>8, <2>1 DEF Inside, Resumed
  <2> QED
    BY <1>4, <1>8, <2>2 DEF IdentityDiscipline
<1> QED
  BY <1>6, <1>7, <1>9, <1>10 DEF IInv, Shape

\* CREATE EXTENSION restores the role, or goes on as the superuser.
LEMMA ChooseExtensionPathStep ==
  ASSUME RolesAssumption, IInv, NEW privileged \in BOOLEAN,
         ChooseExtensionPath(privileged)
  PROVE  IInv'
<1>1. /\ Running /\ Top.pc = "options" /\ Top.kind \in StmtKinds /\ ~Top.latch
      /\ Top \in Frame
      /\ UNCHANGED <<outerRole, prev, runningScript, raising, switchLost, latchLost>>
  BY HandlerFacts DEF ChooseExtensionPath, Running, ScriptPcs
<1>2. /\ "util" \in SwitchedPcs \cap Pcs /\ "options" \in SwitchedPcs
      /\ "util_as_caller" \in Pcs \ SwitchedPcs
  BY DEF SwitchedPcs, CodePcs, Pcs
<1>3. CASE privileged
  BY <1>1, <1>2, <1>3, GotoStep DEF ChooseExtensionPath
<1>4. CASE ~privileged /\ Top.already
  <2>1. /\ Goto("util_as_caller") /\ UNCHANGED <<ident, isSwitched>>
    BY <1>4 DEF ChooseExtensionPath, SwitchToOriginalRole
  <2> DEFINE frame == [Top EXCEPT !.pc = "util_as_caller"]
  <2>2. /\ frame \in Frame
        /\ frame.kind = Top.kind /\ frame.entry = Top.entry /\ frame.role = Top.role
        /\ frame.latch = Top.latch /\ frame.pc = "util_as_caller"
        /\ frame.already = Top.already
    BY <1>1, <1>2 DEF Frame
  <2>3. ~HoldsSwitch(frame) /\ ~HoldsSwitch(Top)
    BY <1>4, <2>2 DEF HoldsSwitch
  <2>4. Replace(frame)
    BY <2>1 DEF Goto
  <2> HIDE DEF frame
  <2> QED
    BY <1>1, <2>1, <2>2, <2>3, <2>4, HandlerStep
<1>5. CASE ~privileged /\ ~Top.already
  <2>1. HoldsSwitch(Top)
    BY <1>1, <1>2, <1>5 DEF HoldsSwitch
  <2>2. Goto("util_as_caller") /\ SwitchToOriginalRole(Top.already)
    BY <1>5 DEF ChooseExtensionPath
  <2> QED
    BY <1>1, <1>2, <2>1, <2>2, RestoreStep
<1> QED
  BY <1>3, <1>4, <1>5

\* The chained hook returns.
LEMMA UtilityReturnsStep ==
  ASSUME RolesAssumption, IInv, UtilityReturns
  PROVE  IInv'
<1>1. /\ Running /\ Top.pc \in {"util", "util_as_caller", "chain"}
      /\ Top.kind \in StmtKinds /\ ~Top.latch /\ Top \in Frame
      /\ UNCHANGED <<ident, outerRole, prev, isSwitched, runningScript, raising,
                     switchLost, latchLost>>
  BY HandlerFacts DEF UtilityReturns, Running, ScriptPcs
<1>2. /\ {"after_script", "owner", "release", "util"} \subseteq SwitchedPcs \cap Pcs
      /\ {"reswitch", "util_as_caller"} \subseteq Pcs \ SwitchedPcs
      /\ "chain" \notin SwitchedPcs
  BY DEF SwitchedPcs, CodePcs, Pcs
<1>3. CASE Top.pc = "util"
  <2> DEFINE pc == CASE Top.kind = "create_ext" -> "after_script"
                     [] \/ Top.kind = "create"
                        \/ Top.kind = "create_evtrig" /\ ~IsSuper(Top.entry.user)
                                                -> "owner"
                     [] OTHER                   -> "release"
  <2>1. Goto(pc)
    BY <1>3 DEF UtilityReturns
  <2>2. pc \in {"after_script", "owner", "release"}
    OBVIOUS
  <2> HIDE DEF pc
  <2>3. pc \in Pcs /\ pc \in SwitchedPcs /\ pc # "body"
    BY <1>2, <2>2
  <2> QED
    BY <1>1, <1>2, <1>3, <2>1, <2>3, GotoStep
<1>4. CASE Top.pc = "util_as_caller"
  BY <1>1, <1>2, <1>4, GotoStep DEF UtilityReturns
<1>5. CASE Top.pc = "chain"
  <2>1. ~HoldsSwitch(Top)
    BY <1>2, <1>5 DEF HoldsSwitch
  <2>2. ident = Resumed(Top.entry)
    BY <1>1, <2>1 DEF Running, IInv, IdentityDiscipline, Inside, StmtKinds
  <2>3. stack' = Below
    BY <1>5 DEF UtilityReturns
  <2> QED
    BY <1>1, <2>1, <2>2, <2>3, PopStep DEF Running
<1> QED
  BY <1>1, <1>3, <1>4, <1>5

\* alter_owner returns.
LEMMA AlterOwnerStep ==
  ASSUME RolesAssumption, IInv, AlterOwner
  PROVE  IInv'
<1>1. Running /\ Top.kind \in StmtKinds /\ ~Top.latch
  BY HandlerFacts DEF AlterOwner, Running, ScriptPcs
<1>2. "owner" \in SwitchedPcs /\ "release" \in SwitchedPcs /\ "release" \in Pcs
  BY DEF SwitchedPcs, Pcs
<1> QED
  BY <1>1, <1>2, GotoStep DEF AlterOwner

\* A statement returns: its frame is popped and the switch, if it was made for
\* it, is undone.
LEMMA ReleaseStep ==
  ASSUME RolesAssumption, IInv, Release
  PROVE  IInv'
<1> DEFINE n == Len(stack)
<1>1. /\ Running /\ Top.pc = "release" /\ Top.kind \in StmtKinds /\ ~Top.latch
      /\ Top \in Frame /\ n \notin Latches
      /\ UNCHANGED <<outerRole, prev, runningScript, raising, switchLost, latchLost>>
      /\ SwitchToOriginalRole(Top.already)
  BY HandlerFacts DEF Release, Running, ScriptPcs
<1>2. "release" \in SwitchedPcs /\ "chain" \in Pcs /\ "chain" \notin SwitchedPcs
  BY DEF SwitchedPcs, CodePcs, Pcs
<1>3. CASE Top.already
  <2>1. ~HoldsSwitch(Top) /\ UNCHANGED <<ident, isSwitched>>
    BY <1>1, <1>3 DEF HoldsSwitch, SwitchToOriginalRole
  <2>2. CASE Top.kind = "alter_ext"
    <3> DEFINE frame == [Top EXCEPT !.pc = "chain"]
    <3>1. /\ frame \in Frame
          /\ frame.kind = Top.kind /\ frame.entry = Top.entry /\ frame.role = Top.role
          /\ frame.latch = Top.latch /\ frame.pc = "chain"
          /\ frame.already = Top.already
      BY <1>1, <1>2 DEF Frame
    <3>2. Replace(frame) /\ ~HoldsSwitch(frame)
      BY <1>3, <2>2, <3>1 DEF Release, Goto, HoldsSwitch
    <3> HIDE DEF frame
    <3> QED
      BY <1>1, <2>1, <3>1, <3>2, HandlerStep
  <2>3. CASE Top.kind # "alter_ext"
    <3>1. ident = Resumed(Top.entry)
      BY <1>1, <2>1 DEF Running, IInv, IdentityDiscipline, Inside, StmtKinds
    <3>2. stack' = Below
      BY <2>3 DEF Release
    <3> QED
      BY <1>1, <2>1, <3>1, <3>2, PopStep DEF Running
  <2> QED
    BY <2>2, <2>3
<1>4. CASE ~Top.already
  <2>1. HoldsSwitch(Top)
    BY <1>1, <1>2, <1>4 DEF HoldsSwitch
  <2>2. CASE Top.kind = "alter_ext"
    <3>1. Goto("chain")
      BY <2>2 DEF Release
    <3> QED
      BY <1>1, <1>2, <2>1, <3>1, RestoreStep
  <2>3. CASE Top.kind # "alter_ext"
    <3>1. stack # <<>> /\ stack' = Below
      BY <1>1, <2>3 DEF Release, Running
    <3>2. /\ ident' = Resumed(Top.entry) /\ ident' \in Identity /\ isSwitched' = FALSE
          /\ ~switchLost /\ Holders = {n}
      BY <1>1, <2>1, <3>1, RestoreFacts
    <3>3. Holders' = {} /\ Latches' = Latches
      BY <1>1, <3>1, <3>2, HoldersPop
    <3>4. Shape'
      BY <1>1, <3>1, ShapePop
    <3>5. SwitchOwnership' /\ PrevIsCallers' /\ ScriptLatch'
      BY <1>1, <3>2, <3>3 DEF IInv, SwitchOwnership, PrevIsCallers, ScriptLatch
    <3>6. IdentityDiscipline'
      BY <1>1, <3>1, <3>2, CallerFacts
    <3>7. TypeOK'
      BY <1>1, <3>1, <3>2, TopFacts DEF IInv, TypeOK
    <3> QED
      BY <3>4, <3>5, <3>6, <3>7 DEF IInv, Shape
  <2> QED
    BY <2>2, <2>3
<1> QED
  BY <1>3, <1>4

\* Raising an error changes nothing yet.
LEMMA SameStack ==
  ASSUME IInv, raising' \in BOOLEAN, raising => raising',
         UNCHANGED <<ident, outerRole, prev, isSwitched, runningScript, stack,
                     switchLost, latchLost>>
  PROVE  IInv'
<1>1. TypeOK'
  BY DEF IInv, TypeOK
<1>2. Depths' = Depths /\ \A i \in Depths : HoldsSwitch(stack[i])' <=> HoldsSwitch(stack[i])
  BY DEF Depths, HoldsSwitch
<1>3. Holders' = Holders /\ Latches' = Latches
  BY <1>2 DEF Holders, Latches
<1>4. SwitchOwnership' /\ PrevIsCallers' /\ ScriptLatch'
  BY <1>3, QuietStep
<1>5. \A i \in Nat : Inside(stack[i])' = Inside(stack[i])
  BY DEF Inside, Resumed, HoldsSwitch
<1>6. WellFormed' /\ SavedRoles'
  BY <1>2 DEF IInv, WellFormed, SavedRoles
<1>7. Nesting'
  <2>1. \A i \in Depths : i \in Nat /\ i - 1 \in Nat
    BY DEF Depths
  <2> QED
    BY <1>2, <1>5, <2>1 DEF IInv, Nesting
<1>8. IdentityDiscipline'
  BY DEF IInv, IdentityDiscipline, Top, Inside, Resumed, HoldsSwitch
<1> QED
  BY <1>1, <1>4, <1>6, <1>7, <1>8 DEF IInv

\* An error is raised.
LEMMA FailStep ==
  ASSUME IInv, Fail
  PROVE  IInv'
BY SameStack DEF Fail

\* An error leaves a handler, through its PG_CATCH or not.
LEMMA UnwindStatementStep ==
  ASSUME RolesAssumption, IInv, UnwindStatement
  PROVE  IInv'
<1> DEFINE n == Len(stack)
<1>1. /\ raising /\ raising' /\ stack # <<>> /\ stack' = Below
      /\ Top.kind \in StmtKinds /\ Top \in Frame
      /\ n \in Holders <=> HoldsSwitch(Top)
      /\ n \in Latches <=> Top.latch
      /\ Top.latch \in BOOLEAN
      /\ latchLost' = (latchLost \/ Top.latch)
      /\ UNCHANGED <<outerRole, prev, runningScript, raising>>
  BY HandlerFacts DEF UnwindStatement, Frame
<1>2. /\ Holders' = Holders \ {n} /\ Latches' = Latches \ {n}
      /\ \A i \in Depths : i # n => stack'[i] = stack[i]
  BY <1>1, HoldersPop
<1>3. Shape'
  BY <1>1, ShapePop
<1>4. IdentityDiscipline'
  BY <1>1 DEF IdentityDiscipline
<1>5. ScriptLatch' /\ latchLost' \in BOOLEAN
  BY <1>1, <1>2 DEF IInv, ScriptLatch, TypeOK
<1>6. PrevIsCallers'
  BY <1>1, <1>2 DEF IInv, PrevIsCallers, Resumed, Holders
<1>7. SwitchOwnership' /\ switchLost' \in BOOLEAN /\ isSwitched' \in BOOLEAN
      /\ ident' \in Identity
  <2>1. CASE Top.pc = "util" /\ ~Top.already
    <3>1. HoldsSwitch(Top) /\ SwitchToOriginalRole(Top.already) /\ UNCHANGED switchLost
      BY <1>1, <2>1 DEF UnwindStatement, HoldsSwitch, SwitchedPcs
    <3>2. /\ ident' \in Identity /\ isSwitched' = FALSE /\ ~switchLost /\ Holders = {n}
      BY <1>1, <3>1, RestoreFacts
    <3> QED
      BY <1>2, <3>1, <3>2 DEF IInv, SwitchOwnership, TypeOK
  <2>2. CASE Top.pc = "util" /\ Top.already
    <3>1. ~HoldsSwitch(Top) /\ UNCHANGED <<ident, isSwitched, switchLost>>
      BY <2>2 DEF UnwindStatement, HoldsSwitch, SwitchToOriginalRole
    <3>2. Holders' = Holders
      BY <1>1, <1>2, <3>1
    <3> QED
      BY <3>1, <3>2 DEF IInv, SwitchOwnership, TypeOK
  <2>3. CASE Top.pc # "util"
    <3>1. /\ switchLost' = (switchLost \/ HoldsSwitch(Top))
          /\ UNCHANGED <<ident, isSwitched>>
      BY <2>3 DEF UnwindStatement
    <3>2. HoldsSwitch(Top) \in BOOLEAN
      BY DEF HoldsSwitch
    <3> QED
      BY <1>1, <1>2, <3>1, <3>2 DEF IInv, SwitchOwnership, TypeOK
  <2> QED
    BY <2>1, <2>2, <2>3
<1>8. TypeOK'
  BY <1>1, <1>5, <1>7, TopFacts DEF IInv, TypeOK
<1> QED
  BY <1>3, <1>4, <1>5, <1>6, <1>7, <1>8 DEF IInv, Shape

\* An error leaves a SECURITY DEFINER function.
LEMMA UnwindDefinerStep ==
  ASSUME RolesAssumption, IInv, UnwindDefiner
  PROVE  IInv'
<1>1. /\ raising' /\ stack # <<>> /\ stack' = Below
      /\ ~HoldsSwitch(Top) /\ ~Top.latch
      /\ UNCHANGED <<ident, outerRole, prev, isSwitched, runningScript, raising,
                     switchLost, latchLost>>
  <2>1. ~Top.latch /\ ~HoldsSwitch(Top)
    BY HandlerFacts DEF UnwindDefiner, HoldsSwitch, StmtKinds
  <2> QED
    BY <2>1 DEF UnwindDefiner
<1>2. /\ Holders' = Holders /\ Latches' = Latches
      /\ \A i \in Holders : stack'[i].entry = stack[i].entry
  BY <1>1, HoldersPop, HandlerFacts DEF Holders
<1>3. SwitchOwnership' /\ PrevIsCallers' /\ ScriptLatch'
  BY <1>1, <1>2, QuietStep
<1>4. Shape'
  BY <1>1, ShapePop
<1>5. TypeOK' /\ IdentityDiscipline'
  BY <1>1, TopFacts DEF IInv, TypeOK, IdentityDiscipline
<1> QED
  BY <1>3, <1>4, <1>5 DEF IInv, Shape

\* A (sub)transaction aborts: control is back in the frame below, under the
\* identity the block was entered with.
LEMMA AbortBlockStep ==
  ASSUME RolesAssumption, IInv, AbortBlock
  PROVE  IInv'
<1> DEFINE n == Len(stack)
<1>1. /\ stack # <<>> /\ stack' = Below /\ Top.kind = "block" /\ Top \in Frame
      /\ n \in Depths /\ stack[n] = Top
      /\ ~HoldsSwitch(Top) /\ ~Top.latch /\ n \notin Holders /\ n \notin Latches
      /\ ident' = Top.entry /\ outerRole' = Top.role /\ raising' = FALSE
      /\ UNCHANGED <<prev, isSwitched, runningScript, switchLost, latchLost>>
  BY HandlerFacts DEF AbortBlock, HoldsSwitch, StmtKinds
<1>2. /\ Holders' = Holders /\ Latches' = Latches
      /\ \A i \in Holders : stack'[i].entry = stack[i].entry
  BY <1>1, HoldersPop DEF Holders
<1>3. Shape'
  BY <1>1, ShapePop
<1>4. SwitchOwnership' /\ ScriptLatch'
  BY <1>1, <1>2 DEF IInv, SwitchOwnership, ScriptLatch
<1>5. /\ Top.entry.sec = {} => Top.entry.user = outerRole'
      /\ Top.entry.sec # {} => outerRole' = outerRole
      /\ Top.entry \in Identity
  BY <1>1 DEF IInv, SavedRoles, Frame
<1>6. PrevIsCallers'
  <2> SUFFICES ASSUME NEW i \in Holders
               PROVE  prev = Resumed(stack[i].entry)'
    BY <1>1, <1>2 DEF PrevIsCallers
  <2>1. i \in Depths /\ HoldsSwitch(stack[i]) /\ stack[i] \in Frame /\ i < n
        /\ outerRole \in Roles
    BY <1>1 DEF Holders, IInv, TypeOK, Depths
  <2>2. Inside(stack[i]).sec # {}
    BY <2>1, InsideFacts
  <2>3. Inside(stack[i]).sec \subseteq stack[n].entry.sec
    BY <1>1, <2>1 DEF IInv, Nesting
  <2>4. outerRole' = outerRole
    BY <1>1, <1>5, <2>2, <2>3
  <2> QED
    BY <1>1, <1>2, <2>4 DEF IInv, PrevIsCallers, Resumed
<1>7. TypeOK'
  BY <1>1, <1>5, TopFacts DEF IInv, TypeOK, Frame
<1>8. IdentityDiscipline'
  <2>1. /\ n \in Nat \ {0} /\ Depths = 1..n
        /\ stack' \in Seq(Frame) /\ Len(stack') = n - 1
        /\ \A i \in 1..n - 1 : stack'[i] = stack[i]
    BY <1>1, TopFacts DEF IInv, Depths
  <2>2. CASE n = 1
    <3>1. Top.entry.sec = {}
      BY <1>1, <2>2 DEF IInv, Nesting
    <3>2. stack' = <<>>
      BY <2>1, <2>2, EmptySeq
    <3> QED
      BY <1>1, <1>5, <3>1, <3>2 DEF IdentityDiscipline, Identity
  <2>3. CASE n > 1
    <3>1. /\ stack' # <<>> /\ Top' = stack[n - 1] /\ stack'[n - 1] = stack[n - 1]
          /\ stack[n - 1] \in Frame
      BY <2>1, <2>3 DEF Top, IInv, TypeOK
    <3>2. /\ Top.entry.sec = Inside(stack[n - 1]).sec
          /\ Top.entry.sec # {} => Top.entry = Inside(stack[n - 1])
      BY <1>1, <2>1, <2>3 DEF IInv, Nesting
    <3>3. outerRole \in Roles /\ outerRole' \in Roles
      BY <1>1, <1>7 DEF IInv, TypeOK
    <3>4. CASE Top.entry.sec # {}
      <4>1. Inside(Top)' = Inside(stack[n - 1])
        BY <1>5, <3>1, <3>4 DEF Inside, Resumed, HoldsSwitch
      <4> QED
        BY <1>1, <3>1, <3>2, <3>4, <4>1 DEF IdentityDiscipline
    <3>5. CASE Top.entry.sec = {}
      <4>1. /\ ~HoldsSwitch(stack[n - 1]) /\ stack[n - 1].kind # "definer"
            /\ stack[n - 1].entry.sec = {}
        BY <3>1, <3>2, <3>3, <3>5, InsideFacts
      <4>2. Inside(Top)' = [user |-> outerRole', sec |-> {}]
        BY <3>1, <4>1 DEF Inside, Resumed, HoldsSwitch
      <4>3. Top.entry = [user |-> outerRole', sec |-> {}]
        BY <1>5, <3>5 DEF Identity
      <4> QED
        BY <1>1, <3>1, <4>2, <4>3 DEF IdentityDiscipline
    <3> QED
      BY <3>4, <3>5
  <2> QED
    BY <2>1, <2>2, <2>3
<1> QED
  BY <1>3, <1>4, <1>6, <1>7, <1>8 DEF IInv, Shape

-----------------------------------------------------------------------------
(* The theorems *)

\* The inductive invariant is kept by every step of Next, stuttering included.
LEMMA NextIInv ==
  ASSUME RolesAssumption, IInv, [Next]_vars
  PROVE  IInv'
<1>1. CASE BeginBlock
  BY <1>1, BeginBlockStep
<1>2. ASSUME NEW role \in Roles, BeginDefiner(role) \/ SetRole(role)
      PROVE  IInv'
  BY <1>2, BeginDefinerStep, SetRoleStep
<1>3. ASSUME NEW kind \in StmtKinds, BeginStatement(kind)
      PROVE  IInv'
  BY <1>3, BeginStatementStep
<1>4. CASE Advance
  <2>1. ASSUME NEW privileged \in BOOLEAN, ChooseExtensionPath(privileged)
        PROVE  IInv'
    BY <2>1, ChooseExtensionPathStep
  <2> QED
    BY <1>4, <2>1, EndBlockStep, EndDefinerStep, SwitchStep, ScriptSteps,
       UtilityReturnsStep, AlterOwnerStep, ReleaseStep DEF Advance
<1>5. CASE SwitchFails \/ Fail
  BY <1>5, SwitchFailsStep, FailStep
<1>6. CASE Unwind
  BY <1>6, UnwindStatementStep, UnwindDefinerStep, AbortBlockStep DEF Unwind
<1>7. CASE UNCHANGED vars
  BY <1>7, SameStack DEF vars, IInv, TypeOK
<1> QED
  BY <1>1, <1>2, <1>3, <1>4, <1>5, <1>6, <1>7 DEF Next

\* The inductive invariant holds in every reachable state.
THEOREM Invariance == Spec => []IInv
<1>1. Init => IInv
  BY InitIInv, RolesAssumption
<1>2. IInv /\ [Next]_vars => IInv'
  BY NextIInv, RolesAssumption
<1> QED
  BY <1>1, <1>2, PTL DEF Spec

\* Type correctness: every variable keeps its type, whatever errors happen.
THEOREM TypeCorrect == Spec => []TypeOK
<1>1. IInv => TypeOK
  BY DEF IInv
<1> QED
  BY <1>1, Invariance, PTL

\* is_switched_to_superuser is up exactly while one handler holds the switch, or
\* after an error that left a handler outside of its PG_TRY.
THEOREM SwitchHasOneOwner == Spec => []SwitchOwnership
<1>1. IInv => SwitchOwnership
  BY DEF IInv
<1> QED
  BY <1>1, Invariance, PTL

\* prev_role_oid and prev_role_sec_context are those of the caller of the
\* statement that switched.
THEOREM SavedIdentityIsCallers == Spec => []PrevIsCallers
<1>1. IInv => PrevIsCallers
  BY DEF IInv
<1> QED
  BY <1>1, Invariance, PTL

\* Code runs under the identity its innermost frame calls for, after every
\* return and every caught error.
THEOREM IdentityIsDisciplined == Spec => []IdentityDiscipline
<1>1. IInv => IdentityDiscipline
  BY DEF IInv
<1> QED
  BY <1>1, Invariance, PTL

\* Custom scripts never nest, and only an error in one leaves the latch up.
THEOREM ScriptsNeverNest == Spec => []ScriptLatch
<1>1. IInv => ScriptLatch
  BY DEF IInv
<1> QED
  BY <1>1, Invariance, PTL

-----------------------------------------------------------------------------
(* The action properties *)

\* Between a switch and its restore SET ROLE is rejected, and a subtransaction
\* that aborts brings back the role it already had.
LEMMA SessionRoleStep ==
  ASSUME RolesAssumption, IInv, Next, isSwitched, ~switchLost
  PROVE  outerRole' = outerRole
<1>1. PICK i \in Holders : TRUE
  BY DEF IInv, SwitchOwnership
<1>2. /\ i \in Depths
      /\ HoldsSwitch(stack[i])
      /\ stack[i] \in Frame
      /\ Len(stack) \in Nat
      /\ Depths = 1..Len(stack)
  BY <1>1 DEF Holders, Depths, IInv, TypeOK
<1>3. Inside(stack[i]).sec # {}
  BY <1>2, InsideFacts DEF IInv, TypeOK
<1>4. ASSUME NEW role \in Roles, SetRole(role)
      PROVE  FALSE
  <2>1. Inside(stack[i]).sec \subseteq Inside(Top).sec
    <3>1. CASE i = Len(stack)
      BY <3>1 DEF Top
    <3>2. CASE i # Len(stack)
      <4>1. Len(stack) \in Depths /\ i < Len(stack)
        BY <1>2, <3>2
      <4>2. Inside(stack[i]).sec \subseteq Top.entry.sec
        BY <1>2, <4>1 DEF IInv, Nesting, Top
      <4>3. Top \in Frame
        BY <4>1, <1>2 DEF Top, IInv, TypeOK
      <4> QED
        BY <4>2, <4>3, InsideFacts DEF IInv, TypeOK
    <3> QED
      BY <3>1, <3>2
  <2>2. ident = Inside(Top)
    BY <1>4 DEF SetRole, RunsCode, Running, IInv, IdentityDiscipline
  <2> QED
    BY <1>3, <1>4, <2>1, <2>2 DEF SetRole
<1>5. CASE AbortBlock
  <2>1. Len(stack) \in Depths /\ i < Len(stack)
    BY <1>2, <1>5 DEF AbortBlock, Top, HoldsSwitch, StmtKinds
  <2>2. Top.entry.sec # {}
    BY <1>2, <1>3, <2>1 DEF IInv, Nesting, Top
  <2>3. Top.role = outerRole
    BY <1>5, <2>1, <2>2 DEF AbortBlock, IInv, SavedRoles, Top
  <2> QED
    BY <1>5, <2>3 DEF AbortBlock
<1>6. CASE UnwindStatement \/ UnwindDefiner
  BY <1>6 DEF UnwindStatement, UnwindDefiner
<1>7. CASE Advance
  BY <1>7 DEF Advance, EndBlock, EndDefiner, Switch, StartScript, SkipScript, FinishScript,
              ChooseExtensionPath, UtilityReturns, AlterOwner, Release
<1>8. CASE \/ BeginBlock
           \/ \E role \in Roles : BeginDefiner(role)
           \/ \E kind \in StmtKinds : BeginStatement(kind)
           \/ SwitchFails
           \/ Fail
  BY <1>8 DEF BeginBlock, BeginDefiner, BeginStatement, SwitchFails, Fail
<1> QED
  BY <1>4, <1>5, <1>6, <1>7, <1>8 DEF Next, Unwind

\* The role of SET ROLE stays the same while a statement is delegated.
THEOREM SessionRoleIsKept == Spec => SessionRoleKept
<1>1. IInv /\ [Next]_vars
        => [isSwitched /\ isSwitched' /\ ~switchLost' => outerRole' = outerRole]_vars
  <2> SUFFICES ASSUME IInv, Next, isSwitched, ~switchLost'
               PROVE  outerRole' = outerRole
    OBVIOUS
  <2>1. ~switchLost
    BY DEF Next, Advance, Unwind, BeginBlock, BeginDefiner, SetRole, BeginStatement,
           EndBlock, EndDefiner, Switch, SwitchFails, StartScript, SkipScript,
           FinishScript, ChooseExtensionPath, UtilityReturns, AlterOwner, Release,
           Fail, UnwindStatement, UnwindDefiner, AbortBlock
  <2> QED
    BY <2>1, SessionRoleStep, RolesAssumption
<1> QED
  BY <1>1, Invariance, PTL DEF Spec, SessionRoleKept

-----------------------------------------------------------------------------
(* Up and down the stack *)

\* From the handler that switched up to the next SECURITY DEFINER function, code
\* runs as the superuser.
LEMMA SuperuserAboveHolder ==
  ASSUME RolesAssumption, IInv, NEW i \in Holders,
         \A j \in Depths : j > i => stack[j].kind # "definer"
  PROVE  \A j \in Depths : j >= i => Inside(stack[j]).user = SupautilsSuperuser
<1> DEFINE Bad == {j \in Depths : j >= i /\ Inside(stack[j]).user # SupautilsSuperuser}
<1>1. /\ Len(stack) \in Nat /\ Depths = 1..Len(stack)
      /\ i \in Depths /\ HoldsSwitch(stack[i])
      /\ outerRole \in Roles
      /\ \A j \in Depths : stack[j] \in Frame
  BY DEF IInv, TypeOK, Holders, Depths
<1>2. Inside(stack[i]).sec # {} /\ Inside(stack[i]).user = SupautilsSuperuser
  <2>1. Inside(stack[i]).sec # {}
    BY <1>1, InsideFacts
  <2>2. Inside(stack[i]).user = SupautilsSuperuser
    BY <1>1 DEF Inside, HoldsSwitch, StmtKinds
  <2>. QED
    BY <2>1, <2>2
<1>. SUFFICES ASSUME Bad # {} PROVE FALSE
  OBVIOUS
<1>3. PICK j \in Bad : \A k \in Bad : j <= k
  <2>1. Bad \in SUBSET Nat
    BY <1>1
  <2>. QED
    BY <2>1, LeastNumber
<1>4. j \in Depths /\ j > i /\ j - 1 \in Depths /\ j - 1 >= i
  BY <1>1, <1>2, <1>3
<1>5. Inside(stack[j - 1]).user = SupautilsSuperuser
  BY <1>1, <1>3, <1>4
<1>6. stack[j].entry = Inside(stack[j - 1]) /\ stack[j].entry.sec # {}
  <2>1. Inside(stack[i]).sec \subseteq stack[j].entry.sec
    BY <1>1, <1>4 DEF IInv, Nesting
  <2>2. j > 1 /\ stack[j].entry.sec # {}
    BY <1>1, <1>2, <1>4, <2>1
  <2>. QED
    BY <1>4, <2>2 DEF IInv, Nesting
<1>7. ~HoldsSwitch(stack[j])
  BY <1>1, <1>4 DEF IInv, SwitchOwnership, Holders
<1>8. Inside(stack[j]) = stack[j].entry
  BY <1>4, <1>6, <1>7 DEF Inside, Resumed
<1>. QED
  BY <1>3, <1>5, <1>6, <1>8

\* Only a handler that switched restricts the code it runs.
LEMMA RestrictedUnderHolder ==
  ASSUME RolesAssumption, IInv
  PROVE  \A j \in Depths : "restricted_operation" \in stack[j].entry.sec
           => \E i \in Holders : i < j
<1> DEFINE Bad == {j \in Depths : /\ "restricted_operation" \in stack[j].entry.sec
                                  /\ ~\E i \in Holders : i < j}
<1>1. /\ Len(stack) \in Nat /\ Depths = 1..Len(stack)
      /\ \A j \in Depths : stack[j] \in Frame
  BY DEF IInv, TypeOK, Depths
<1>. SUFFICES ASSUME Bad # {} PROVE FALSE
  OBVIOUS
<1>2. PICK j \in Bad : \A k \in Bad : j <= k
  <2>1. Bad \in SUBSET Nat
    BY <1>1
  <2>. QED
    BY <2>1, LeastNumber
<1>3. j \in Depths /\ j # 1 /\ j - 1 \in Depths /\ j - 1 < j
  BY <1>1, <1>2 DEF IInv, Nesting
<1>4. "restricted_operation" \in Inside(stack[j - 1]).sec
  BY <1>1, <1>2, <1>3 DEF IInv, Nesting
<1>5. ~HoldsSwitch(stack[j - 1])
  BY <1>2, <1>3 DEF Holders
<1>6. "restricted_operation" \in stack[j - 1].entry.sec
  BY <1>4, <1>5 DEF Inside, Resumed
<1>7. j - 1 \notin Bad
  BY <1>1, <1>2, <1>3
<1>8. PICK i \in Holders : i < j - 1
  BY <1>3, <1>6, <1>7
<1>9. i \in Depths
  BY <1>8 DEF Holders
<1>. QED
  BY <1>1, <1>2, <1>3, <1>8, <1>9

-----------------------------------------------------------------------------
(* A handler that found the switch made runs inside the one that made it *)

\* Changes of the stack: a frame that did not look for the switch is pushed,
LEMMA FoundPush ==
  ASSUME IInv, SwitchFound, NEW frame \in Frame, Push(frame), ~frame.already,
         ~HoldsSwitch(frame), ~frame.latch, UNCHANGED switchLost
  PROVE  SwitchFound'
<1>1. /\ Len(stack) \in Nat /\ Depths = 1..Len(stack)
      /\ Depths' = 1..(Len(stack) + 1)
      /\ stack'[Len(stack) + 1] = frame
      /\ \A j \in Depths : stack'[j] = stack[j]
      /\ Holders' = Holders
  BY PushFacts, HoldersPush DEF IInv, Depths
<1>2. \A j \in Depths' : j \in Depths \/ j = Len(stack) + 1
  BY <1>1
<1>. QED
  BY <1>1, <1>2 DEF SwitchFound

\* the top frame is left,
LEMMA FoundPop ==
  ASSUME IInv, SwitchFound, stack # <<>>, stack' = Below, switchLost => switchLost'
  PROVE  SwitchFound'
<1>1. /\ Len(stack) \in Nat /\ Depths = 1..Len(stack)
      /\ Depths' = 1..(Len(stack) - 1)
      /\ Holders' = Holders \ {Len(stack)}
      /\ \A j \in Depths : j # Len(stack) => stack'[j] = stack[j]
  BY TopFacts, HoldersPop DEF IInv, Depths
<1>2. \A j \in Depths' : j \in Depths /\ j < Len(stack)
  BY <1>1
<1>3. \A j \in Depths', i \in Holders : i < j => i \in Holders'
  BY <1>1, <1>2 DEF Holders
<1>. QED
  BY <1>1, <1>2, <1>3 DEF SwitchFound

\* or its handler goes on.
LEMMA FoundReplace ==
  ASSUME IInv, SwitchFound, stack # <<>>, NEW frame \in Frame, Replace(frame),
         switchLost => switchLost',
         (~switchLost' /\ frame.already /\ frame.pc \in SwitchedPcs)
           => \E i \in Holders : i < Len(stack)
  PROVE  SwitchFound'
<1>1. /\ Len(stack) \in Nat /\ Depths = 1..Len(stack)
      /\ Depths' = Depths
      /\ Holders \ {Len(stack)} \subseteq Holders'
      /\ stack'[Len(stack)] = frame
      /\ \A j \in Depths : j # Len(stack) => stack'[j] = stack[j]
  BY TopFacts, HoldersReplace DEF IInv, Depths
<1>2. \A j \in Depths : j <= Len(stack)
  BY <1>1
<1>3. \A j \in Depths, i \in Holders : i < j => i \in Holders'
  BY <1>1, <1>2 DEF Holders
<1>. QED
  BY <1>1, <1>2, <1>3 DEF SwitchFound

\* The top frame, where it found the switch made.
LEMMA FoundTop ==
  ASSUME IInv, SwitchFound, stack # <<>>, ~switchLost, Top.already, Top.pc \in SwitchedPcs
  PROVE  \E i \in Holders : i < Len(stack)
BY HandlerFacts DEF SwitchFound

\* A handler that switches, or finds itself switched.
LEMMA SwitchFoundBySwitch ==
  ASSUME IInv, SwitchFound, Switch
  PROVE  SwitchFound'
<1> DEFINE pc == IF Top.pc = "reswitch" THEN "after_script"
                 ELSE IF Top.kind = "create_ext" THEN "global_script" ELSE "util"
           frame == [Top EXCEPT !.already = isSwitched, !.pc = pc]
<1>1. /\ stack # <<>> /\ Top \in Frame /\ Len(stack) \notin Holders
      /\ UNCHANGED switchLost
  BY HandlerFacts DEF Switch, Running, HoldsSwitch, SwitchedPcs
<1>2. Replace(frame)
  BY DEF Switch, SwitchToSuperuser
<1>3. frame \in Frame /\ frame.already = isSwitched
  BY <1>1 DEF Frame, IInv, TypeOK, Pcs, SwitchedPcs
<1> HIDE DEF frame
<1>4. ASSUME ~switchLost, isSwitched
      PROVE  \E i \in Holders : i < Len(stack)
  <2>1. PICK i \in Holders : TRUE
    BY <1>4 DEF IInv, SwitchOwnership
  <2>2. i \in 1..Len(stack) /\ Len(stack) \in Nat
    BY <1>1, TopFacts DEF Holders, Depths, IInv
  <2>. QED
    BY <1>1, <2>1, <2>2
<1>. QED
  BY <1>1, <1>2, <1>3, <1>4, FoundReplace

\* The other steps of a handler keep already_switched_to_superuser as it is.
LEMMA SwitchFoundByHandler ==
  ASSUME IInv, SwitchFound,
         \/ SwitchFails \/ StartScript \/ SkipScript \/ FinishScript
         \/ \E privileged \in BOOLEAN : ChooseExtensionPath(privileged)
         \/ UtilityReturns \/ AlterOwner \/ Release
  PROVE  SwitchFound'
<1>1. stack # <<>> /\ Top \in Frame
  BY HandlerFacts DEF SwitchFails, StartScript, SkipScript, FinishScript,
     ChooseExtensionPath, UtilityReturns, AlterOwner, Release, Running
<1>2. ASSUME NEW frame \in Frame, Replace(frame), UNCHANGED switchLost,
             frame.already = Top.already, frame.pc \in SwitchedPcs => Top.pc \in SwitchedPcs
      PROVE  SwitchFound'
  BY <1>1, <1>2, FoundTop, FoundReplace
<1>3. ASSUME NEW pc \in Pcs, Goto(pc), UNCHANGED switchLost,
             pc \in SwitchedPcs => Top.pc \in SwitchedPcs
      PROVE  SwitchFound'
  <2> DEFINE frame == [Top EXCEPT !.pc = pc]
  <2>1. Replace(frame)
    BY <1>3 DEF Goto
  <2>2. frame \in Frame /\ frame.already = Top.already /\ frame.pc = pc
    BY <1>1 DEF Frame
  <2> HIDE DEF frame
  <2>. QED
    BY <1>2, <1>3, <2>1, <2>2
<1>4. /\ SwitchedPcs \cup CodePcs \subseteq Pcs /\ "reswitch" \in Pcs \ SwitchedPcs
      /\ "chain" \in CodePcs \ SwitchedPcs /\ "util_as_caller" \in CodePcs \ SwitchedPcs
      /\ {"util", "owner", "release", "options", "after_script"} \subseteq SwitchedPcs
      /\ ScriptPcs \subseteq SwitchedPcs
      /\ \A pc \in ScriptPcs : AfterScript(pc) \in SwitchedPcs
  BY DEF Pcs, SwitchedPcs, CodePcs, ScriptPcs, AfterScript
<1>5. CASE SwitchFails
  <2> DEFINE frame == [Top EXCEPT !.already = FALSE]
  <2>1. Replace(frame) /\ switchLost' = TRUE
    BY <1>5 DEF SwitchFails
  <2>2. frame \in Frame
    BY <1>1 DEF Frame
  <2> HIDE DEF frame
  <2>. QED
    BY <1>1, <2>1, <2>2, FoundReplace
<1>6. CASE StartScript
  <2> DEFINE frame == [Top EXCEPT !.latch = TRUE]
  <2>1. Replace(frame) /\ UNCHANGED switchLost
    BY <1>6 DEF StartScript
  <2>2. frame \in Frame /\ frame.already = Top.already /\ frame.pc = Top.pc
    BY <1>1 DEF Frame
  <2> HIDE DEF frame
  <2>. QED
    BY <1>2, <2>1, <2>2
<1>7. CASE SkipScript
  BY <1>3, <1>4, <1>7 DEF SkipScript
<1>8. CASE FinishScript
  <2> DEFINE frame == [Top EXCEPT !.latch = FALSE, !.pc = AfterScript(Top.pc)]
  <2>1. Replace(frame) /\ UNCHANGED switchLost /\ Top.pc \in ScriptPcs
    BY <1>1, <1>8, HandlerFacts DEF FinishScript
  <2>2. frame \in Frame /\ frame.already = Top.already
    BY <1>1, <1>4, <2>1 DEF Frame
  <2> HIDE DEF frame
  <2>. QED
    BY <1>2, <1>4, <2>1, <2>2
<1>9. ASSUME NEW privileged \in BOOLEAN, ChooseExtensionPath(privileged)
      PROVE  SwitchFound'
  BY <1>3, <1>4, <1>9 DEF ChooseExtensionPath
<1>10. CASE UtilityReturns
  <2>1. CASE Top.pc = "util"
    <3> DEFINE pc == CASE Top.kind = "create_ext" -> "after_script"
                       [] \/ Top.kind = "create"
                          \/ Top.kind = "create_evtrig" /\ ~IsSuper(Top.entry.user)
                                                  -> "owner"
                       [] OTHER                   -> "release"
    <3>1. Goto(pc) /\ UNCHANGED switchLost /\ pc \in {"after_script", "owner", "release"}
      BY <1>10, <2>1 DEF UtilityReturns
    <3> HIDE DEF pc
    <3>. QED
      BY <1>3, <1>4, <2>1, <3>1
  <2>2. CASE Top.pc = "util_as_caller"
    BY <1>3, <1>4, <1>10, <2>2 DEF UtilityReturns
  <2>3. CASE Top.pc = "chain"
    BY <1>1, <1>10, <2>3, FoundPop DEF UtilityReturns
  <2>. QED
    BY <1>10, <2>1, <2>2, <2>3 DEF UtilityReturns
<1>11. CASE AlterOwner
  BY <1>3, <1>4, <1>11 DEF AlterOwner
<1>12. CASE Release
  BY <1>1, <1>3, <1>4, <1>12, FoundPop DEF Release
<1>. QED
  BY <1>5, <1>6, <1>7, <1>8, <1>9, <1>10, <1>11, <1>12

\* Every step keeps it.
LEMMA SwitchFoundStep ==
  ASSUME IInv, SwitchFound, [Next]_vars
  PROVE  SwitchFound'
<1>1. CASE BeginBlock
  <2> DEFINE frame == NewFrame("block", "body", outerRole)
  <2>1. frame \in Frame /\ ~frame.already /\ ~HoldsSwitch(frame) /\ ~frame.latch
    BY DEF NewFrame, HoldsSwitch, StmtKinds, Frame, FrameKinds, Pcs, CodePcs, IInv, TypeOK
  <2> HIDE DEF frame
  <2>. QED
    BY <1>1, <2>1, FoundPush DEF BeginBlock, frame
<1>2. ASSUME NEW role \in Roles, BeginDefiner(role)
      PROVE  SwitchFound'
  <2> DEFINE frame == NewFrame("definer", "body", role)
  <2>1. frame \in Frame /\ ~frame.already /\ ~HoldsSwitch(frame) /\ ~frame.latch
    BY DEF NewFrame, HoldsSwitch, StmtKinds, Frame, FrameKinds, Pcs, CodePcs, IInv, TypeOK
  <2> HIDE DEF frame
  <2>. QED
    BY <1>2, <2>1, FoundPush DEF BeginDefiner, frame
<1>3. ASSUME NEW kind \in StmtKinds, BeginStatement(kind)
      PROVE  SwitchFound'
  <2> DEFINE pc == IF kind = "passthrough" THEN "chain" ELSE "switch"
             frame == NewFrame(kind, pc, outerRole)
  <2>1. pc \in Pcs \ SwitchedPcs
    BY DEF Pcs, CodePcs, SwitchedPcs
  <2>2. Push(frame) /\ UNCHANGED switchLost
    BY <1>3 DEF BeginStatement
  <2> HIDE DEF pc
  <2>3. frame \in Frame /\ ~frame.already /\ ~HoldsSwitch(frame) /\ ~frame.latch
    BY <2>1 DEF NewFrame, HoldsSwitch, Frame, FrameKinds, IInv, TypeOK
  <2> HIDE DEF frame
  <2>. QED
    BY <2>2, <2>3, FoundPush
<1>4. CASE Advance
  <2>1. CASE EndBlock \/ EndDefiner
    BY <2>1, FoundPop DEF EndBlock, EndDefiner, Running
  <2>. QED
    BY <1>4, <2>1, SwitchFoundBySwitch, SwitchFoundByHandler DEF Advance
<1>5. CASE SwitchFails
  BY <1>5, SwitchFoundByHandler
<1>6. CASE Unwind
  <2>1. stack # <<>> /\ stack' = Below
    BY <1>6 DEF Unwind, UnwindStatement, UnwindDefiner, AbortBlock
  <2>2. switchLost => switchLost'
    BY <1>6 DEF Unwind, UnwindStatement, UnwindDefiner, AbortBlock, IInv, TypeOK
  <2>. QED
    BY <2>1, <2>2, FoundPop
<1>7. ASSUME UNCHANGED <<stack, switchLost>>
      PROVE  SwitchFound'
  BY <1>7 DEF SwitchFound, Holders, HoldsSwitch, Depths
<1>8. CASE Fail \/ UNCHANGED vars \/ \E role \in Roles : SetRole(role)
  BY <1>7, <1>8 DEF Fail, SetRole, vars
<1>. QED
  BY <1>1, <1>2, <1>3, <1>4, <1>5, <1>6, <1>8 DEF Next

\* The inductive invariant of the delegation holds in every reachable state.
THEOREM DelegationInvariance == Spec => []DelegationInv
<1>1. Init => DelegationInv
  <2>1. Init => SwitchFound
    BY DEF Init, SwitchFound, Depths
  <2>. QED
    BY <2>1, InitIInv, RolesAssumption DEF DelegationInv
<1>2. DelegationInv /\ [Next]_vars => DelegationInv'
  BY NextIInv, SwitchFoundStep, RolesAssumption DEF DelegationInv
<1>. QED
  BY <1>1, <1>2, PTL DEF Spec

\* README, Delegation: what the hook delegates runs as the superuser, in the
\* statement that switched and in those inside it.
THEOREM DelegatedRuns == Spec => []DelegatedRunsAsSuperuser
<1>1. ASSUME DelegationInv
      PROVE  DelegatedRunsAsSuperuser
  <2>. SUFFICES ASSUME Running, Top.pc = "util", ~switchLost,
                       \A i \in Holders, j \in Depths : j > i => stack[j].kind # "definer"
                PROVE  ident.user = SupautilsSuperuser
    BY DEF DelegatedRunsAsSuperuser, InDelegated
  <2>1. /\ Len(stack) \in Nat /\ Len(stack) \in Depths /\ stack[Len(stack)] = Top
        /\ Top.kind \in StmtKinds /\ Top \in Frame
        /\ ident = Inside(Top)
    BY <1>1, HandlerFacts, TopFacts DEF DelegationInv, IInv, IdentityDiscipline, Running
  <2>2. PICK i \in Holders : i <= Len(stack)
    <3>1. CASE Top.already
      <4>1. "util" \in SwitchedPcs
        BY DEF SwitchedPcs
      <4>2. PICK i \in Holders : i < Len(stack)
        BY <1>1, <3>1, <4>1, FoundTop DEF DelegationInv, Running
      <4>3. i \in Nat
        BY <4>2 DEF Holders, Depths
      <4>. QED
        BY <2>1, <4>2, <4>3
    <3>2. CASE ~Top.already
      BY <2>1, <3>2 DEF Holders, HoldsSwitch, SwitchedPcs
    <3>. QED
      BY <3>1, <3>2
  <2>. QED
    BY <1>1, <2>1, <2>2, SuperuserAboveHolder, RolesAssumption DEF DelegationInv
<1>. QED
  BY <1>1, DelegationInvariance, PTL

-----------------------------------------------------------------------------
(* The handlers implement Impersonation: the state they map to *)

\* The identities that calls began with.
LEMMA EntriesFacts ==
  ASSUME NEW frames \in Seq(Frame), NEW entries,
         entries = [i \in 1..Len(frames) |-> frames[i].entry]
  PROVE  /\ entries \in Seq(Identity)
         /\ Len(entries) = Len(frames)
         /\ \A i \in 1..Len(frames) : entries[i] = frames[i].entry
<1>1. Len(frames) \in Nat
  BY LenProperties
<1>2. \A i \in 1..Len(frames) : frames[i] \in Frame
  OBVIOUS
<1>3. \A i \in 1..Len(frames) : frames[i].entry \in Identity
  BY <1>2 DEF Frame
<1>4. entries \in [1..Len(frames) -> Identity]
  BY <1>3
<1>5. entries \in Seq(Identity)
  BY <1>1, <1>4, SeqDef
<1>6. DOMAIN entries = 1..Len(entries) /\ Len(entries) \in Nat
  BY <1>5, LenProperties
<1>7. Len(entries) = Len(frames)
  BY <1>1, <1>4, <1>6
<1>. QED
  BY <1>5, <1>7

\* What Callers takes from the stack.
LEMMA CallersFacts ==
  ASSUME IInv
  PROVE  /\ Callers \in Seq(Identity)
         /\ Len(Callers) = Len(stack)
         /\ Len(stack) \in Nat
         /\ \A i \in 1..Len(stack) : Callers[i] = stack[i].entry
<1>1. stack \in Seq(Frame) /\ Callers = [i \in 1..Len(stack) |-> stack[i].entry]
  BY DEF IInv, TypeOK, Callers, Depths
<1>2. Len(stack) \in Nat
  BY <1>1, LenProperties
<1>. QED
  BY <1>1, <1>2, EntriesFacts

\* The innermost caller is the one of the top frame.
LEMMA CallerOfTop ==
  ASSUME IInv, stack # <<>>
  PROVE  /\ Callers # <<>>
         /\ Promise!Caller = Top.entry
         /\ Top.entry \in Identity
<1>1. Len(stack) \in 1..Len(stack) /\ Top.entry \in Identity
  BY TopFacts DEF IInv, Frame
<1>. QED
  BY <1>1, CallersFacts DEF Promise!Caller, Top

\* Entering a frame adds its caller,
LEMMA CallersPush ==
  ASSUME IInv, IInv', NEW frame \in Frame, Push(frame)
  PROVE  Callers' = Append(Callers, frame.entry)
<1> DEFINE n == Len(stack)
<1>1. /\ n \in Nat /\ Len(stack') = n + 1
      /\ stack'[n + 1] = frame
      /\ \A i \in 1..n : stack'[i] = stack[i]
      /\ frame.entry \in Identity
  BY PushFacts DEF IInv, Frame
<1>2. /\ Callers \in Seq(Identity) /\ Len(Callers) = n
      /\ \A i \in 1..n : Callers[i] = stack[i].entry
  BY CallersFacts
<1>3. /\ Callers' \in Seq(Identity) /\ Len(Callers') = n + 1
      /\ \A i \in 1..(n + 1) : Callers'[i] = stack'[i].entry
  BY <1>1, EntriesFacts DEF IInv, TypeOK, Callers, Depths
<1>4. /\ Append(Callers, frame.entry) \in Seq(Identity)
      /\ Len(Append(Callers, frame.entry)) = n + 1
      /\ \A i \in 1..n : Append(Callers, frame.entry)[i] = Callers[i]
      /\ Append(Callers, frame.entry)[n + 1] = frame.entry
  BY <1>1, <1>2, AppendProperties
<1>5. \A i \in 1..(n + 1) : Callers'[i] = Append(Callers, frame.entry)[i]
  <2>1. \A i \in 1..(n + 1) : i \in 1..n \/ i = n + 1
    BY <1>1
  <2>. QED
    BY <1>1, <1>2, <1>3, <1>4, <2>1
<1>. QED
  BY <1>3, <1>4, <1>5, SeqEqual

\* leaving one takes it away,
LEMMA CallersPop ==
  ASSUME IInv, IInv', stack # <<>>, stack' = Below
  PROVE  Callers' = Promise!Outer
<1> DEFINE n == Len(stack)
<1>1. /\ n \in Nat \ {0} /\ Len(stack') = n - 1
      /\ \A i \in 1..n - 1 : stack'[i] = stack[i]
  BY TopFacts DEF IInv
<1>2. /\ Callers \in Seq(Identity) /\ Len(Callers) = n
      /\ \A i \in 1..n : Callers[i] = stack[i].entry
  BY CallersFacts
<1>3. /\ Callers' \in Seq(Identity) /\ Len(Callers') = n - 1
      /\ \A i \in 1..n - 1 : Callers'[i] = stack'[i].entry
  BY <1>1, EntriesFacts DEF IInv, TypeOK, Callers, Depths
<1>4. /\ SubSeq(Callers, 1, n - 1) \in Seq(Identity)
      /\ Len(SubSeq(Callers, 1, n - 1)) = n - 1
      /\ \A i \in 1..n - 1 : SubSeq(Callers, 1, n - 1)[i] = Callers[i]
  <2>1. n - 1 \in Nat /\ n - 1 <= Len(Callers)
    BY <1>1, <1>2
  <2>. QED
    BY <1>2, <2>1, PrefixFacts
<1>5. \A i \in 1..n - 1 : Callers'[i] = SubSeq(Callers, 1, n - 1)[i]
  BY <1>1, <1>2, <1>3, <1>4
<1>6. Callers' = SubSeq(Callers, 1, n - 1)
  BY <1>3, <1>4, <1>5, SeqEqual
<1>. QED
  BY <1>2, <1>6 DEF Promise!Outer

\* and what its handler does in between does not show.
LEMMA CallersReplace ==
  ASSUME IInv, stack # <<>>, NEW frame \in Frame, Replace(frame), frame.entry = Top.entry
  PROVE  Callers' = Callers
<1>1. /\ Depths' = Depths /\ Len(stack) \in Depths
      /\ stack'[Len(stack)] = frame /\ stack[Len(stack)] = Top
      /\ \A i \in Depths : i # Len(stack) => stack'[i] = stack[i]
  BY HoldersReplace, HandlerFacts
<1>2. \A i \in Depths : stack'[i].entry = stack[i].entry
  BY <1>1
<1>. QED
  BY <1>1, <1>2 DEF Callers

\* While no error is on its way, who runs is known.
LEMMA WhoRuns ==
  ASSUME IInv, ~raising
  PROVE  Who = ident /\ Who # NoRole /\ (stack # <<>> => Promise!Active)
BY NoRoleAssumption, CallerOfTop DEF Who, IInv, TypeOK, Promise!Active

\* Nobody runs while an error is on its way.
LEMMA NobodyRuns ==
  ASSUME raising
  PROVE  Who = NoRole
BY DEF Who

\* The identity of a caller once control is back with it is that of the promise.
LEMMA SameResumed ==
  ASSUME IInv, stack # <<>>
  PROVE  Promise!Resumed(Promise!Caller, outerRole) = Resumed(Top.entry)
BY CallerOfTop DEF Promise!Resumed, Resumed

-----------------------------------------------------------------------------
(* The kinds of steps of the promise *)

\* A frame that is pushed with the present identity is a call.
LEMMA Calls ==
  ASSUME IInv, IInv', ~raising, ~raising', NEW frame \in Frame, Push(frame),
         frame.entry = ident, UNCHANGED <<ident, outerRole>>
  PROVE  Promise!Call
BY CallersPush, WhoRuns DEF Promise!Call, Who

\* So is a SECURITY DEFINER function, which changes the identity.
LEMMA CallsDefiner ==
  ASSUME IInv, IInv', NEW role \in Roles, BeginDefiner(role)
  PROVE  Promise!CallDefiner(role)
<1> DEFINE frame == NewFrame("definer", "body", role)
<1>1. frame \in Frame /\ frame.entry = ident
  BY DEF NewFrame, Frame, FrameKinds, Pcs, CodePcs, IInv, TypeOK
<1>2. /\ ~raising /\ ~raising' /\ stack # <<>> /\ Push(frame) /\ UNCHANGED outerRole
      /\ ident' = [user |-> role, sec |-> ident.sec \cup {"local_userid_change"}]
  BY DEF BeginDefiner, RunsCode, Running
<1> HIDE DEF frame
<1>3. Callers' = Append(Callers, Who)
  BY <1>1, <1>2, CallersPush, WhoRuns
<1>. QED
  BY <1>2, <1>3, WhoRuns DEF Promise!CallDefiner, Who

\* A pop after which the caller's identity is back is a return.
LEMMA Returns ==
  ASSUME IInv, IInv', stack # <<>>, ~raising, ~raising', stack' = Below,
         ident' = Resumed(Top.entry), UNCHANGED outerRole
  PROVE  Promise!Return
BY CallersPop, WhoRuns, SameResumed DEF Promise!Return, Who

\* A step that raises an error and leaves the callers alone is a throw.
LEMMA Throws ==
  ASSUME IInv, stack # <<>>, ~raising, raising', Callers' = Callers, UNCHANGED outerRole
  PROVE  Promise!Throw
BY WhoRuns DEF Promise!Throw, Who

\* A pop on the way of an error is a propagation.
LEMMA Propagates ==
  ASSUME IInv, IInv', stack # <<>>, raising, raising', stack' = Below, UNCHANGED outerRole
  PROVE  Promise!Propagate
BY CallersPop, CallerOfTop DEF Promise!Propagate, Who

\* A step that changes neither who nor callers is a stutter.
LEMMA Stutters ==
  ASSUME UNCHANGED <<Callers, ident, raising, outerRole>>
  PROVE  UNCHANGED Promise!absVars
BY DEF Promise!absVars, Who

\* A caller that is back under its own identity, in the middle of a statement.
LEMMA BecomesCaller ==
  ASSUME IInv, stack # <<>>, ~raising, ~raising', Callers' = Callers,
         ident' = Resumed(Top.entry), UNCHANGED outerRole
  PROVE  Promise!BecomeCaller
BY WhoRuns, SameResumed DEF Promise!BecomeCaller, Who

\* Outside of what is delegated already, a handler switches to the superuser.
LEMMA Switches ==
  ASSUME RolesAssumption, IInv, Switch
  PROVE  Promise!BecomeDelegate \/ UNCHANGED Promise!absVars
<1> DEFINE pc == IF Top.pc = "reswitch" THEN "after_script"
                 ELSE IF Top.kind = "create_ext" THEN "global_script" ELSE "util"
           frame == [Top EXCEPT !.already = isSwitched, !.pc = pc]
<1>1. /\ ~raising /\ ~raising' /\ stack # <<>> /\ Top \in Frame
      /\ Len(stack) \in Depths /\ stack[Len(stack)] = Top
      /\ Top.kind \in StmtKinds /\ ~HoldsSwitch(Top)
      /\ UNCHANGED <<outerRole, raising>>
      /\ Replace(frame)
  BY HandlerFacts DEF Switch, SwitchToSuperuser, Running, HoldsSwitch, SwitchedPcs
<1>2. frame \in Frame /\ frame.entry = Top.entry
  BY <1>1 DEF Frame, IInv, TypeOK, Pcs, SwitchedPcs
<1> HIDE DEF frame
<1>3. Callers' = Callers
  BY <1>1, <1>2, CallersReplace
<1>4. CASE isSwitched
  BY <1>1, <1>3, <1>4, Stutters DEF Switch, SwitchToSuperuser
<1>5. CASE ~isSwitched
  <2>1. ident' = [user |-> SupautilsSuperuser, sec |-> ident.sec \cup SecFlags]
    BY <1>5 DEF Switch, SwitchToSuperuser
  <2>2. ident = Resumed(Top.entry)
    BY <1>1 DEF IInv, IdentityDiscipline, Inside, StmtKinds
  <2>3. "restricted_operation" \notin ident.sec
    <3>1. Holders = {}
      BY <1>5 DEF IInv, SwitchOwnership
    <3>2. "restricted_operation" \notin Top.entry.sec
      BY <1>1, <3>1, RestrictedUnderHolder
    <3>. QED
      BY <2>2, <3>2 DEF Resumed
  <2>4. Promise!BecomeDelegate
    BY <1>1, <1>3, <2>1, <2>2, <2>3, WhoRuns, SameResumed
       DEF Promise!BecomeDelegate, Promise!Restricted, SecFlags, Who
  <2>. QED
    BY <2>4
<1>. QED
  BY <1>4, <1>5

\* The abort of a (sub)transaction catches the error.
LEMMA Catches ==
  ASSUME IInv, IInv', AbortBlock
  PROVE  Promise!Catch(Top.role) /\ Top.role \in Roles
<1>1. /\ raising /\ ~raising' /\ stack # <<>> /\ stack' = Below /\ Top.kind = "block"
      /\ ident' = Top.entry /\ outerRole' = Top.role /\ Top \in Frame
      /\ Len(stack) \in Depths /\ stack[Len(stack)] = Top
  BY HandlerFacts DEF AbortBlock
<1>2. /\ Top.entry.sec = {} => Top.entry = [user |-> Top.role, sec |-> {}]
      /\ Top.entry.sec # {} => Top.role = outerRole
  BY <1>1 DEF IInv, SavedRoles, Frame, Identity
<1>3. /\ Callers # <<>> /\ Promise!Caller = Top.entry
      /\ Callers' = Promise!Outer
  BY <1>1, CallerOfTop, CallersPop
<1>4. Who' = Promise!Resumed(Promise!Caller, Top.role)
  BY <1>1, <1>2, <1>3 DEF Promise!Resumed, Who
<1>. QED
  BY <1>1, <1>2, <1>3, <1>4, NobodyRuns DEF Promise!Catch, Frame

-----------------------------------------------------------------------------
(* Every step of the hook is a step of the promise, or does not show *)

\* What begins is a call.
LEMMA BeginStepsMap ==
  ASSUME IInv, IInv',
         BeginBlock \/ \E kind \in StmtKinds : BeginStatement(kind)
  PROVE  Promise!Call
<1>1. CASE BeginBlock
  <2> DEFINE frame == NewFrame("block", "body", outerRole)
  <2>1. frame \in Frame /\ frame.entry = ident
    BY DEF NewFrame, Frame, FrameKinds, Pcs, CodePcs, IInv, TypeOK
  <2>2. Push(frame) /\ ~raising /\ UNCHANGED <<ident, outerRole, raising>>
    BY <1>1 DEF BeginBlock
  <2> HIDE DEF frame
  <2>. QED
    BY <2>1, <2>2, Calls
<1>2. ASSUME NEW kind \in StmtKinds, BeginStatement(kind)
      PROVE  Promise!Call
  <2> DEFINE pc == IF kind = "passthrough" THEN "chain" ELSE "switch"
             frame == NewFrame(kind, pc, outerRole)
  <2>1. pc \in Pcs
    BY DEF Pcs, CodePcs
  <2>2. Push(frame) /\ ~raising /\ UNCHANGED <<ident, outerRole, raising>>
    BY <1>2 DEF BeginStatement, RunsCode, Running
  <2> HIDE DEF pc
  <2>3. frame \in Frame /\ frame.entry = ident
    BY <2>1 DEF NewFrame, Frame, FrameKinds, IInv, TypeOK
  <2> HIDE DEF frame
  <2>. QED
    BY <2>2, <2>3, Calls
<1>. QED
  BY <1>1, <1>2

\* SET ROLE changes the session's role where nothing is restricted.
LEMMA SetRoleMaps ==
  ASSUME IInv, NEW role \in Roles, SetRole(role)
  PROVE  Promise!ChangeSession(role)
<1>1. /\ ~raising /\ ~raising' /\ stack # <<>> /\ ident.sec = {}
      /\ outerRole' = role /\ ident' = [user |-> role, sec |-> {}] /\ stack' = stack
  BY DEF SetRole, RunsCode, Running
<1>2. Callers' = Callers
  BY <1>1 DEF Callers, Depths
<1>. QED
  BY <1>1, <1>2, WhoRuns DEF Promise!ChangeSession, Who

\* The ends of blocks and functions.
LEMMA EndStepsMap ==
  ASSUME IInv, IInv', EndBlock \/ EndDefiner
  PROVE  Promise!Return
<1>1. /\ ~raising /\ ~raising' /\ stack # <<>> /\ stack' = Below
      /\ UNCHANGED outerRole /\ Top \in Frame
      /\ Len(stack) \in Depths /\ stack[Len(stack)] = Top
  BY HandlerFacts DEF EndBlock, EndDefiner, Running
<1>2. CASE EndBlock
  <2>1. ident = Resumed(Top.entry)
    BY <1>1, <1>2 DEF EndBlock, IInv, IdentityDiscipline, Inside, HoldsSwitch, StmtKinds
  <2>. QED
    BY <1>1, <1>2, <2>1, Returns DEF EndBlock
<1>3. CASE EndDefiner
  <2>1. Top.entry.sec = {} => Top.entry = [user |-> outerRole, sec |-> {}]
    BY <1>1, <1>3 DEF EndDefiner, IInv, SavedRoles, Frame, Identity
  <2>. QED
    BY <1>1, <1>3, <2>1, Returns DEF EndDefiner, Resumed
<1>. QED
  BY <1>2, <1>3

\* What a handler does on its own does not show.
LEMMA GotoHides ==
  ASSUME IInv, stack # <<>>, NEW frame \in Frame, Replace(frame), frame.entry = Top.entry,
         UNCHANGED <<ident, raising, outerRole>>
  PROVE  UNCHANGED Promise!absVars
BY CallersReplace, Stutters

\* What a handler does between its switches is a stutter.
LEMMA HandlerStepsHide ==
  ASSUME IInv, StartScript \/ SkipScript \/ FinishScript \/ AlterOwner
  PROVE  UNCHANGED Promise!absVars
<1>1. stack # <<>> /\ Top \in Frame /\ UNCHANGED <<ident, raising, outerRole>>
  BY HandlerFacts DEF StartScript, SkipScript, FinishScript, AlterOwner, Running
<1>2. AfterScript(Top.pc) \in Pcs /\ "release" \in Pcs
  BY DEF AfterScript, Pcs, SwitchedPcs
<1>3. CASE StartScript
  <2> DEFINE frame == [Top EXCEPT !.latch = TRUE]
  <2>1. frame \in Frame /\ frame.entry = Top.entry
    BY <1>1, <1>2 DEF Frame
  <2>2. Replace(frame)
    BY <1>3 DEF StartScript
  <2> HIDE DEF frame
  <2>. QED
    BY <1>1, <2>1, <2>2, GotoHides
<1>4. CASE SkipScript
  <2> DEFINE frame == [Top EXCEPT !.pc = AfterScript(Top.pc)]
  <2>1. frame \in Frame /\ frame.entry = Top.entry
    BY <1>1, <1>2 DEF Frame
  <2>2. Replace(frame)
    BY <1>4 DEF SkipScript, Goto
  <2> HIDE DEF frame
  <2>. QED
    BY <1>1, <2>1, <2>2, GotoHides
<1>5. CASE FinishScript
  <2> DEFINE frame == [Top EXCEPT !.latch = FALSE, !.pc = AfterScript(Top.pc)]
  <2>1. frame \in Frame /\ frame.entry = Top.entry
    BY <1>1, <1>2 DEF Frame
  <2>2. Replace(frame)
    BY <1>5 DEF FinishScript
  <2> HIDE DEF frame
  <2>. QED
    BY <1>1, <2>1, <2>2, GotoHides
<1>6. CASE AlterOwner
  <2> DEFINE frame == [Top EXCEPT !.pc = "release"]
  <2>1. frame \in Frame /\ frame.entry = Top.entry
    BY <1>1, <1>2 DEF Frame
  <2>2. Replace(frame)
    BY <1>6 DEF AlterOwner, Goto
  <2> HIDE DEF frame
  <2>. QED
    BY <1>1, <2>1, <2>2, GotoHides
<1>. QED
  BY <1>3, <1>4, <1>5, <1>6

\* A handler's own way on, under the identity it already has or, after a restore,
\* under its caller's.
LEMMA GotoMaps ==
  ASSUME RolesAssumption, IInv, Running, NEW pc \in Pcs, Goto(pc),
         \/ UNCHANGED ident
         \/ HoldsSwitch(Top) /\ SwitchToOriginalRole(Top.already),
         UNCHANGED <<raising, outerRole>>
  PROVE  Promise!BecomeCaller \/ UNCHANGED Promise!absVars
<1> DEFINE frame == [Top EXCEPT !.pc = pc]
<1>1. stack # <<>> /\ ~raising /\ ~raising' /\ Top \in Frame
  BY HandlerFacts DEF Running
<1>2. Replace(frame) /\ frame \in Frame /\ frame.entry = Top.entry
  BY <1>1 DEF Goto, Frame
<1> HIDE DEF frame
<1>3. CASE UNCHANGED ident
  BY <1>1, <1>2, <1>3, GotoHides
<1>4. CASE HoldsSwitch(Top) /\ SwitchToOriginalRole(Top.already)
  BY <1>1, <1>2, <1>4, RestoreFacts, CallersReplace, BecomesCaller
<1>. QED
  BY <1>3, <1>4

\* The restore in the middle of CREATE EXTENSION.
LEMMA ChooseExtensionPathMaps ==
  ASSUME RolesAssumption, IInv, NEW privileged \in BOOLEAN, ChooseExtensionPath(privileged)
  PROVE  Promise!BecomeCaller \/ UNCHANGED Promise!absVars
<1>1. /\ Running /\ Top.pc = "options" /\ Top.kind \in StmtKinds
      /\ UNCHANGED <<raising, outerRole>>
  BY HandlerFacts DEF ChooseExtensionPath, Running
<1>2. "util" \in Pcs /\ "util_as_caller" \in Pcs /\ "options" \in SwitchedPcs
  BY DEF Pcs, CodePcs, SwitchedPcs
<1>3. CASE privileged
  BY <1>1, <1>2, <1>3, GotoMaps DEF ChooseExtensionPath
<1>4. CASE ~privileged /\ Top.already
  BY <1>1, <1>2, <1>4, GotoMaps DEF ChooseExtensionPath, SwitchToOriginalRole
<1>5. CASE ~privileged /\ ~Top.already
  <2>1. HoldsSwitch(Top)
    BY <1>1, <1>2, <1>5 DEF HoldsSwitch
  <2>2. Goto("util_as_caller") /\ SwitchToOriginalRole(Top.already)
    BY <1>5 DEF ChooseExtensionPath
  <2>. QED
    BY <1>1, <1>2, <2>1, <2>2, GotoMaps
<1>. QED
  BY <1>3, <1>4, <1>5

\* The return of the chained hook.
LEMMA UtilityReturnsMaps ==
  ASSUME RolesAssumption, IInv, IInv', UtilityReturns
  PROVE  Promise!Return \/ Promise!BecomeCaller \/ UNCHANGED Promise!absVars
<1>1. /\ Running /\ stack # <<>> /\ Top.kind \in StmtKinds
      /\ UNCHANGED <<ident, raising, outerRole>>
  BY HandlerFacts DEF UtilityReturns, Running
<1>2. {"after_script", "owner", "release", "reswitch"} \subseteq Pcs
  BY DEF Pcs, SwitchedPcs
<1>3. CASE Top.pc = "util"
  <2> DEFINE pc == CASE Top.kind = "create_ext" -> "after_script"
                     [] \/ Top.kind = "create"
                        \/ Top.kind = "create_evtrig" /\ ~IsSuper(Top.entry.user)
                                                -> "owner"
                     [] OTHER                   -> "release"
  <2>1. Goto(pc) /\ pc \in {"after_script", "owner", "release"}
    BY <1>3 DEF UtilityReturns
  <2> HIDE DEF pc
  <2>. QED
    BY <1>1, <1>2, <2>1, GotoMaps
<1>4. CASE Top.pc = "util_as_caller"
  BY <1>1, <1>2, <1>4, GotoMaps DEF UtilityReturns
<1>5. CASE Top.pc = "chain"
  <2>1. ~HoldsSwitch(Top)
    BY <1>5 DEF HoldsSwitch, SwitchedPcs
  <2>2. ident = Resumed(Top.entry)
    BY <1>1, <2>1 DEF Running, IInv, IdentityDiscipline, Inside, StmtKinds
  <2>. QED
    BY <1>1, <1>5, <2>2, Returns DEF UtilityReturns, Running
<1>. QED
  BY <1>3, <1>4, <1>5 DEF UtilityReturns

\* The restore at the end of a handler.
LEMMA ReleaseMaps ==
  ASSUME RolesAssumption, IInv, IInv', Release
  PROVE  Promise!Return \/ Promise!BecomeCaller \/ UNCHANGED Promise!absVars
<1>1. /\ Running /\ stack # <<>> /\ Top.kind \in StmtKinds /\ Top.pc = "release"
      /\ ~raising /\ ~raising' /\ UNCHANGED <<raising, outerRole>>
      /\ SwitchToOriginalRole(Top.already)
      /\ "release" \in SwitchedPcs /\ "chain" \in Pcs
  BY HandlerFacts DEF Release, Running, SwitchedPcs, Pcs, CodePcs
<1>2. CASE Top.already
  <2>1. ~HoldsSwitch(Top) /\ UNCHANGED ident
    BY <1>1, <1>2 DEF HoldsSwitch, SwitchToOriginalRole
  <2>2. ident = Resumed(Top.entry)
    BY <1>1, <2>1 DEF IInv, IdentityDiscipline, Inside, StmtKinds
  <2>. QED
    BY <1>1, <2>1, <2>2, GotoMaps, Returns DEF Release
<1>3. CASE ~Top.already
  <2>1. HoldsSwitch(Top)
    BY <1>1, <1>3 DEF HoldsSwitch
  <2>2. ident' = Resumed(Top.entry)
    BY <1>1, <2>1, RestoreFacts
  <2>. QED
    BY <1>1, <2>1, <2>2, GotoMaps, Returns DEF Release
<1>. QED
  BY <1>2, <1>3

\* An error is thrown, and leaves a handler or a function.
LEMMA ErrorStepsMap ==
  ASSUME IInv, IInv', SwitchFails \/ Fail \/ UnwindStatement \/ UnwindDefiner
  PROVE  Promise!Throw \/ Promise!Propagate
<1>1. CASE SwitchFails
  <2> DEFINE frame == [Top EXCEPT !.already = FALSE]
  <2>1. stack # <<>> /\ ~raising /\ raising' /\ Top \in Frame /\ UNCHANGED outerRole
    BY <1>1, HandlerFacts DEF SwitchFails, Running
  <2>2. Replace(frame) /\ frame \in Frame /\ frame.entry = Top.entry
    BY <1>1, <2>1 DEF SwitchFails, Frame
  <2> HIDE DEF frame
  <2>. QED
    BY <2>1, <2>2, CallersReplace, Throws
<1>2. CASE Fail
  <2>1. Callers' = Callers
    BY <1>2 DEF Fail, Callers, Depths
  <2>. QED
    BY <1>2, <2>1, Throws DEF Fail, Running
<1>3. CASE UnwindStatement \/ UnwindDefiner
  BY <1>3, Propagates DEF UnwindStatement, UnwindDefiner
<1>. QED
  BY <1>1, <1>2, <1>3

\* Every step is a step of the promise or a stutter.
LEMMA StepMaps ==
  ASSUME RolesAssumption, IInv, IInv', [Next]_vars
  PROVE  Promise!Step \/ UNCHANGED Promise!absVars
<1>1. CASE BeginBlock \/ \E kind \in StmtKinds : BeginStatement(kind)
  BY <1>1, BeginStepsMap DEF Promise!Step
<1>2. ASSUME NEW role \in Roles, BeginDefiner(role) \/ SetRole(role)
      PROVE  Promise!Step
  BY <1>2, CallsDefiner, SetRoleMaps DEF Promise!Step
<1>3. CASE Advance
  <2>1. CASE EndBlock \/ EndDefiner
    BY <2>1, EndStepsMap DEF Promise!Step
  <2>2. CASE Switch
    BY <2>2, Switches DEF Promise!Step
  <2>3. CASE StartScript \/ SkipScript \/ FinishScript \/ AlterOwner
    BY <2>3, HandlerStepsHide
  <2>4. ASSUME NEW privileged \in BOOLEAN, ChooseExtensionPath(privileged)
        PROVE  Promise!Step \/ UNCHANGED Promise!absVars
    BY <2>4, ChooseExtensionPathMaps DEF Promise!Step
  <2>5. CASE UtilityReturns \/ Release
    BY <2>5, UtilityReturnsMaps, ReleaseMaps DEF Promise!Step
  <2>. QED
    BY <1>3, <2>1, <2>2, <2>3, <2>4, <2>5 DEF Advance
<1>4. CASE SwitchFails \/ Fail \/ UnwindStatement \/ UnwindDefiner
  BY <1>4, ErrorStepsMap DEF Promise!Step
<1>5. CASE AbortBlock
  BY <1>5, Catches DEF Promise!Step
<1>6. CASE UNCHANGED vars
  BY <1>6, Stutters DEF vars, Callers, Depths
<1>. QED
  BY <1>1, <1>2, <1>3, <1>4, <1>5, <1>6 DEF Next, Unwind

\* The handlers of supautils.c keep the promise of Impersonation: whatever nests,
\* fails and is caught, code runs as its caller, as the owner of its SECURITY
\* DEFINER function or, where it is delegated, as the restricted superuser, and
\* each caller gets its own identity back.
THEOREM PromiseKept == Spec => KeepsPromise
<1>1. Init => Promise!Start
  BY DEF Init, Promise!Start, Who, Callers, Depths
<1>2. IInv /\ IInv' /\ [Next]_vars => [Promise!Step]_(Promise!absVars)
  BY StepMaps, RolesAssumption
<1>. QED
  BY <1>1, <1>2, Invariance, PTL DEF Spec, KeepsPromise, Promise!AbstractSpec

=============================================================================
