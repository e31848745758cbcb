----------------------- MODULE ExtensionOptions_proofs -----------------------
(***************************************************************************)
(* What runs under CREATE and ALTER EXTENSION keeps to the settings, for   *)
(* every statement, every value of the settings and every machine.  The    *)
(* loops over the options and over the entries of the setting are folds in *)
(* ExtensionOptions: what they return is shown by induction over their     *)
(* steps.                                                                  *)
(***************************************************************************)
EXTENDS ExtensionOptions, InductionLemmas

-----------------------------------------------------------------------------
(* The loop over the options *)

\* The lists that Without goes through, one for each option it has looked at.
Kept(kept, list, name) ==
  /\ kept[0] = <<>>
  /\ \A k \in 1..Len(list) :
       kept[k] = IF list[k].name = name THEN kept[k - 1] ELSE Append(kept[k - 1], list[k])
  /\ Without(list, name) = kept[Len(list)]

\* The loop that deletes an option.
LEMMA WithoutLoop ==
  ASSUME NEW P, NEW list \in Seq(P), NEW name
  PROVE  \E kept \in [0..Len(list) -> Seq(P)] : Kept(kept, list, name)
<1> DEFINE n == Len(list)
    G == [i \in 1..n |-> [kept \in Seq(P) |->
            IF list[i].name = name THEN kept ELSE Append(kept, list[i])]]
    iter == CHOOSE iter : iter = [s \in SUBSET DOMAIN list |->
              IF s = {} THEN <<>>
              ELSE LET x == Max(s)
                   IN  IF list[x].name = name THEN iter[s \ {x}]
                                              ELSE Append(iter[s \ {x}], list[x])]
<1>1. n \in Nat /\ DOMAIN list = 1..n /\ <<>> \in Seq(P)
  OBVIOUS
<1>2. \A i \in 1..n : list[i] \in P
  OBVIOUS
<1>3. G \in [1..n -> [Seq(P) -> Seq(P)]]
  BY <1>2
<1>4. PICK f \in [SUBSET (1..n) -> Seq(P)] :
        \A s \in SUBSET (1..n) :
          f[s] = IF s = {} THEN <<>> ELSE G[Max(s)][f[s \ {Max(s)}]]
  <2> HIDE DEF n, G
  <2>1. \E f \in [SUBSET (1..n) -> Seq(P)] : FoldsOver(f, n, <<>>, G)
    BY <1>1, <1>3, FoldExists
  <2>. QED
    BY <2>1 DEF FoldsOver
<1>5. \A s \in SUBSET (1..n) : s # {} => Max(s) \in 1..n
  BY <1>1, MaxOfSome
<1>6. f = [s \in SUBSET DOMAIN list |->
              IF s = {} THEN <<>>
              ELSE LET x == Max(s)
                   IN  IF list[x].name = name THEN f[s \ {x}]
                                              ELSE Append(f[s \ {x}], list[x])]
  <2>1. ASSUME NEW s \in SUBSET (1..n), s # {}
        PROVE  f[s] = IF list[Max(s)].name = name THEN f[s \ {Max(s)}]
                                      ELSE Append(f[s \ {Max(s)}], list[Max(s)])
    <3>1. f[s] = G[Max(s)][f[s \ {Max(s)}]]
      BY <1>4, <2>1
    <3>2. f[s \ {Max(s)}] \in Seq(P)
      OBVIOUS
    <3>3. Max(s) \in 1..n
      BY <1>5, <2>1
    <3>. QED
      BY <3>1, <3>2, <3>3
  <2>2. f[{}] = <<>>
    BY <1>4
  <2>3. f = [s \in SUBSET (1..n) |-> f[s]]
    OBVIOUS
  <2> HIDE DEF G
  <2>. QED
    BY <1>1, <2>1, <2>2, <2>3
<1>7. iter = [s \in SUBSET DOMAIN list |->
              IF s = {} THEN <<>>
              ELSE LET x == Max(s)
                   IN  IF list[x].name = name THEN iter[s \ {x}]
                                              ELSE Append(iter[s \ {x}], list[x])]
  BY <1>6
<1>8. Without(list, name) = iter[DOMAIN list]
  BY DEF Without, FoldLeft, MapThenFoldSet
<1> HIDE DEF iter, G
<1> DEFINE kept == [k \in 0..n |-> iter[1..k]]
<1>9. kept[0] = <<>>
  <2>1. 1..0 = {}
    OBVIOUS
  <2>. QED
    BY <1>1, <1>7, <2>1
<1>10. ASSUME NEW k \in 1..n
       PROVE  kept[k] = IF list[k].name = name THEN kept[k - 1]
                                                ELSE Append(kept[k - 1], list[k])
  <2>1. Max(1..k) = k /\ (1..k) \ {k} = 1..k - 1
    BY TopOfInterval
  <2>2. 1..k \in SUBSET DOMAIN list /\ 1..k # {}
    BY <1>1
  <2>3. iter[1..k] = IF list[k].name = name THEN iter[1..k - 1]
                                             ELSE Append(iter[1..k - 1], list[k])
    BY <1>7, <2>1, <2>2
  <2>. QED
    BY <1>1, <2>3
<1>11. DOMAIN kept = 0..n /\ kept[n] = iter[1..n]
  BY <1>1
<1> HIDE DEF kept
<1>12. \A k \in 0..n : kept[k] \in Seq(P)
  <2> DEFINE S == {k \in Nat : k <= n => kept[k] \in Seq(P)}
  <2>1. 0 \in S
    BY <1>1, <1>9
  <2>2. ASSUME NEW k \in Nat, k \in S, k + 1 <= n
        PROVE  kept[k + 1] \in Seq(P)
    <3>1. kept[k] \in Seq(P) /\ k + 1 \in 1..n /\ (k + 1) - 1 = k
      BY <1>1, <2>2
    <3>2. kept[k + 1] = IF list[k + 1].name = name THEN kept[k]
                                                   ELSE Append(kept[k], list[k + 1])
      BY <1>10, <3>1
    <3>3. list[k + 1] \in P
      BY <1>2, <3>1
    <3>. QED
      BY <3>1, <3>2, <3>3
  <2>3. \A k \in Nat : k \in S => k + 1 \in S
    BY <2>2
  <2> HIDE DEF S
  <2>4. Nat \subseteq S
    BY <2>1, <2>3, SetInduction
  <2>. QED
    BY <1>1, <2>4 DEF S
<1>13. kept \in [0..n -> Seq(P)]
  <2>1. kept = [k \in 0..n |-> kept[k]]
    BY DEF kept
  <2>. QED
    BY <1>12, <2>1
<1>14. Without(list, name) = kept[n]
  BY <1>1, <1>8, <1>11
<1>. QED
  BY <1>9, <1>10, <1>13, <1>14 DEF Kept

\* Without returns the options of other names, all of them and no others.
LEMMA WithoutKeepsOthers ==
  ASSUME NEW P, NEW list \in Seq(P), NEW name
  PROVE  /\ Without(list, name) \in Seq(P)
         /\ ~Given(Without(list, name), name)
         /\ \A i \in DOMAIN Without(list, name) : \E j \in DOMAIN list :
              Without(list, name)[i] = list[j]
         /\ \A j \in DOMAIN list : list[j].name # name =>
              \E i \in DOMAIN Without(list, name) : Without(list, name)[i] = list[j]
         /\ Len(Without(list, name)) <= Len(list)
         /\ Given(list, name) => Len(Without(list, name)) < Len(list)
<1> DEFINE n == Len(list)
<1>1. PICK kept \in [0..n -> Seq(P)] : Kept(kept, list, name)
  BY WithoutLoop
<1> DEFINE Good(k) ==
      /\ Len(kept[k]) <= k
      /\ \A i \in DOMAIN kept[k] :
           kept[k][i].name # name /\ \E j \in 1..k : kept[k][i] = list[j]
      /\ \A j \in 1..k : list[j].name # name =>
           \E i \in DOMAIN kept[k] : kept[k][i] = list[j]
      /\ (\E j \in 1..k : list[j].name = name) => Len(kept[k]) < k
<1>2. Good(0)
  BY <1>1 DEF Kept
<1>3. ASSUME NEW k \in Nat, k + 1 <= n, Good(k)
      PROVE  Good(k + 1)
  <2>1. kept[k] \in Seq(P) /\ k + 1 \in 1..n /\ (k + 1) - 1 = k /\ list[k + 1] \in P
    BY <1>3
  <2>2. \A j \in 1..k + 1 : j \in 1..k \/ j = k + 1
    OBVIOUS
  <2>3. CASE list[k + 1].name = name
    <3>1. kept[k + 1] = kept[k]
      BY <1>1, <2>1, <2>3 DEF Kept
    <3>. QED
      BY <1>3, <2>1, <2>2, <2>3, <3>1
  <2>4. CASE list[k + 1].name # name
    <3>1. kept[k + 1] = Append(kept[k], list[k + 1])
      BY <1>1, <2>1, <2>4 DEF Kept
    <3>2. /\ Len(kept[k + 1]) = Len(kept[k]) + 1
          /\ DOMAIN kept[k + 1] = 1..Len(kept[k]) + 1
          /\ kept[k + 1][Len(kept[k]) + 1] = list[k + 1]
          /\ DOMAIN kept[k] = 1..Len(kept[k])
          /\ \A i \in DOMAIN kept[k] :
               i \in DOMAIN kept[k + 1] /\ kept[k + 1][i] = kept[k][i]
      BY <2>1, <3>1
    <3>3. Len(kept[k]) \in Nat
      BY <2>1
    <3>4. \A i \in DOMAIN kept[k + 1] : i \in DOMAIN kept[k] \/ i = Len(kept[k]) + 1
      BY <3>2, <3>3
    <3>5. Len(kept[k + 1]) <= k + 1
      BY <1>3, <3>2, <3>3
    <3>6. \A i \in DOMAIN kept[k + 1] :
            kept[k + 1][i].name # name /\ \E j \in 1..k + 1 : kept[k + 1][i] = list[j]
      BY <1>3, <2>4, <3>2, <3>4
    <3>7. \A j \in 1..k + 1 : list[j].name # name =>
            \E i \in DOMAIN kept[k + 1] : kept[k + 1][i] = list[j]
      <4>1. Len(kept[k]) + 1 \in DOMAIN kept[k + 1]
        BY <3>2, <3>3
      <4>2. ASSUME NEW j \in 1..k, list[j].name # name
            PROVE  \E i \in DOMAIN kept[k + 1] : kept[k + 1][i] = list[j]
        <5>1. PICK i \in DOMAIN kept[k] : kept[k][i] = list[j]
          BY <1>3, <4>2
        <5>. QED
          BY <3>2, <5>1
      <4>3. \E i \in DOMAIN kept[k + 1] : kept[k + 1][i] = list[k + 1]
        BY <3>2, <4>1
      <4>. QED
        BY <2>2, <4>2, <4>3
    <3>8. (\E j \in 1..k + 1 : list[j].name = name) => Len(kept[k + 1]) < k + 1
      BY <1>3, <2>2, <2>4, <3>2, <3>3
    <3>. QED
      BY <3>5, <3>6, <3>7, <3>8
  <2>. QED
    BY <2>3, <2>4
<1> HIDE DEF Good
<1>4. Good(n)
  <2> DEFINE S == {k \in Nat : k <= n => Good(k)}
  <2>1. n \in Nat
    OBVIOUS
  <2> HIDE DEF n
  <2>2. 0 \in S /\ \A k \in Nat : k \in S => k + 1 \in S
    BY <1>2, <1>3, <2>1
  <2> HIDE DEF S
  <2>3. n \in S
    BY <2>1, <2>2, SetInduction
  <2>. QED
    BY <2>3 DEF S
<1>5. DOMAIN list = 1..n /\ kept[n] \in Seq(P) /\ n \in Nat
  OBVIOUS
<1>6. Without(list, name) = kept[n]
  BY <1>1 DEF Kept
<1> DEFINE result == kept[n]
<1>7. /\ Len(result) <= n
      /\ \A i \in DOMAIN result :
           result[i].name # name /\ \E j \in 1..n : result[i] = list[j]
      /\ \A j \in 1..n : list[j].name # name => \E i \in DOMAIN result : result[i] = list[j]
      /\ (\E j \in 1..n : list[j].name = name) => Len(result) < n
  BY <1>4 DEF Good
<1> HIDE DEF result
<1>8. Without(list, name) = result /\ result \in Seq(P)
  BY <1>5, <1>6 DEF result
<1>9. /\ ~Given(result, name)
      /\ Given(list, name) => Len(result) < n
  BY <1>5, <1>7 DEF Given
<1>10. /\ \A i \in DOMAIN result : \E j \in DOMAIN list : result[i] = list[j]
       /\ \A j \in DOMAIN list : list[j].name # name =>
            \E i \in DOMAIN result : result[i] = list[j]
  BY <1>5, <1>7
<1>. QED
  BY <1>7, <1>8, <1>9, <1>10

-----------------------------------------------------------------------------
(* The loop over the entries of the setting *)

\* What the schema of an entry makes of the options.
LEMMA OverrideSchemaReplaces ==
  ASSUME NEW list \in Seq(Options), NEW schema \in Values
  PROVE  LET overridden == OverrideSchema(schema, list) IN
         /\ overridden \in Seq(Options)
         /\ Given(overridden, "schema")
         /\ ValuesGiven(overridden, "schema") = {schema}
         /\ ~Given(list, "new_version") => ~Given(overridden, "new_version")
         /\ \A j \in DOMAIN list : list[j].name # "schema" =>
              \E i \in DOMAIN overridden : overridden[i] = list[j]
         /\ Len(overridden) <= Len(list) + 1
         /\ Given(list, "schema") => Len(overridden) <= Len(list)
<1> DEFINE others == Without(list, "schema")
    made == MadeHere("schema", schema)
    overridden == OverrideSchema(schema, list)
<1>1. made \in Options /\ made.name = "schema" /\ made.value = schema
  BY DEF MadeHere, Option, Options, OptionNames, Places
<1>2. /\ others \in Seq(Options)
      /\ ~Given(others, "schema")
      /\ \A i \in DOMAIN others : \E j \in DOMAIN list : others[i] = list[j]
      /\ \A j \in DOMAIN list : list[j].name # "schema" =>
           \E i \in DOMAIN others : others[i] = list[j]
      /\ Len(others) <= Len(list)
      /\ Given(list, "schema") => Len(others) < Len(list)
  BY WithoutKeepsOthers
<1>3. overridden = Append(others, made)
  BY DEF OverrideSchema
<1> HIDE DEF others, made, overridden
<1>4. /\ overridden \in Seq(Options)
      /\ Len(overridden) = Len(others) + 1
      /\ DOMAIN overridden = 1..Len(others) + 1
      /\ DOMAIN others = 1..Len(others)
      /\ Len(others) \in Nat /\ Len(list) \in Nat
      /\ overridden[Len(others) + 1] = made
      /\ \A i \in DOMAIN others : i \in DOMAIN overridden /\ overridden[i] = others[i]
  BY <1>1, <1>2, <1>3
<1>5. /\ \A i \in DOMAIN overridden : i \in DOMAIN others \/ i = Len(others) + 1
      /\ Len(others) + 1 \in DOMAIN overridden
  BY <1>4
<1>6. Given(overridden, "schema")
  BY <1>1, <1>4, <1>5 DEF Given
<1>7. {i \in DOMAIN overridden : overridden[i].name = "schema"} = {Len(others) + 1}
  BY <1>1, <1>2, <1>4, <1>5 DEF Given
<1>8. ValuesGiven(overridden, "schema") = {schema}
  BY <1>1, <1>4, <1>7 DEF ValuesGiven
<1>9. ~Given(list, "new_version") => ~Given(overridden, "new_version")
  BY <1>1, <1>2, <1>4, <1>5 DEF Given
<1>10. \A j \in DOMAIN list : list[j].name # "schema" =>
         \E i \in DOMAIN overridden : overridden[i] = list[j]
  BY <1>2, <1>4
<1>11. /\ Len(overridden) <= Len(list) + 1
       /\ Given(list, "schema") => Len(overridden) <= Len(list)
  <2>1. Len(others) <= Len(list) /\ (Given(list, "schema") => Len(others) < Len(list))
    BY <1>2
  <2>. QED
    BY <1>4, <2>1
<1>. QED
  BY <1>4, <1>6, <1>8, <1>9, <1>10, <1>11 DEF overridden

Results == [error : {"none", "conflict"}, options : Seq(Options)]

\* What one entry makes of a list of options is one.
LEMMA ApplyOverrideType ==
  ASSUME NEW name, NEW result \in Results, NEW epo, epo.schema \in Values \cup {Unset}
  PROVE  ApplyOverride(name, result, epo) \in Results
<1>1. result.options \in Seq(Options)
  BY DEF Results
<1>2. Error("conflict", result.options) \in Results
  BY <1>1 DEF Error, Results
<1>3. ASSUME epo.schema # Unset
      PROVE  Ok(OverrideSchema(epo.schema, result.options)) \in Results
  <2>1. OverrideSchema(epo.schema, result.options) \in Seq(Options)
    BY <1>1, <1>3, OverrideSchemaReplaces
  <2>. QED
    BY <2>1 DEF Ok, Results
<1>. QED
  BY <1>2, <1>3 DEF ApplyOverride

\* The entries of the setting, as far as the proofs look at them.
LEMMA EntriesType ==
  ASSUME epos \in Overrides
  PROVE  /\ Len(epos) \in Nat
         /\ DOMAIN epos = 1..Len(epos)
         /\ \A i \in 1..Len(epos) : epos[i].schema \in Values \cup {Unset}
BY OverridesAssumption

\* The results that OverrideOptions goes through, one for each entry.
Overridden(after, name, list) ==
  /\ after[0] = Ok(list)
  /\ \A k \in 1..Len(epos) : after[k] = ApplyOverride(name, after[k - 1], epos[k])
  /\ OverrideOptions(name, list) = after[Len(epos)]

\* The loop over the entries.
LEMMA OverrideLoop ==
  ASSUME epos \in Overrides, NEW name, NEW list \in Seq(Options)
  PROVE  \E after \in [0..Len(epos) -> Results] : Overridden(after, name, list)
<1> DEFINE n == Len(epos)
    G == [i \in 1..n |-> [result \in Results |-> ApplyOverride(name, result, epos[i])]]
    iter == CHOOSE iter : iter = [s \in SUBSET DOMAIN epos |->
              IF s = {} THEN Ok(list)
              ELSE LET x == Max(s) IN ApplyOverride(name, iter[s \ {x}], epos[x])]
<1>1. n \in Nat /\ DOMAIN epos = 1..n /\ Ok(list) \in Results
  BY EntriesType DEF Ok, Results
<1>2. \A i \in 1..n : \A result \in Results :
        ApplyOverride(name, result, epos[i]) \in Results
  BY EntriesType, ApplyOverrideType
<1>3. G \in [1..n -> [Results -> Results]]
  BY <1>2
<1>4. PICK f \in [SUBSET (1..n) -> Results] :
        \A s \in SUBSET (1..n) :
          f[s] = IF s = {} THEN Ok(list) ELSE G[Max(s)][f[s \ {Max(s)}]]
  <2> HIDE DEF n, G
  <2>1. \E f \in [SUBSET (1..n) -> Results] : FoldsOver(f, n, Ok(list), G)
    BY <1>1, <1>3, FoldExists
  <2>. QED
    BY <2>1 DEF FoldsOver
<1>5. \A s \in SUBSET (1..n) : s # {} => Max(s) \in 1..n
  BY <1>1, MaxOfSome
<1>6. f = [s \in SUBSET DOMAIN epos |->
              IF s = {} THEN Ok(list)
              ELSE LET x == Max(s) IN ApplyOverride(name, f[s \ {x}], epos[x])]
  <2>1. ASSUME NEW s \in SUBSET (1..n), s # {}
        PROVE  f[s] = ApplyOverride(name, f[s \ {Max(s)}], epos[Max(s)])
    <3>1. f[s] = G[Max(s)][f[s \ {Max(s)}]]
      BY <1>4, <2>1
    <3>2. f[s \ {Max(s)}] \in Results
      OBVIOUS
    <3>3. Max(s) \in 1..n
      BY <1>5, <2>1
    <3>. QED
      BY <3>1, <3>2, <3>3
  <2>2. f[{}] = Ok(list)
    BY <1>4
  <2>3. f = [s \in SUBSET (1..n) |-> f[s]]
    OBVIOUS
  <2> HIDE DEF G
  <2>. QED
    BY <1>1, <2>1, <2>2, <2>3
<1>7. iter = [s \in SUBSET DOMAIN epos |->
              IF s = {} THEN Ok(list)
              ELSE LET x == Max(s) IN ApplyOverride(name, iter[s \ {x}], epos[x])]
  BY <1>6
<1>8. OverrideOptions(name, list) = iter[DOMAIN epos]
  BY DEF OverrideOptions, FoldLeft, MapThenFoldSet
<1> HIDE DEF iter, G
<1> DEFINE after == [k \in 0..n |-> iter[1..k]]
<1>9. after[0] = Ok(list)
  <2>1. 1..0 = {}
    OBVIOUS
  <2>. QED
    BY <1>1, <1>7, <2>1
<1>10. ASSUME NEW k \in 1..n
       PROVE  after[k] = ApplyOverride(name, after[k - 1], epos[k])
  <2>1. Max(1..k) = k /\ (1..k) \ {k} = 1..k - 1
    BY TopOfInterval
  <2>2. 1..k \in SUBSET DOMAIN epos /\ 1..k # {}
    BY <1>1
  <2>3. iter[1..k] = ApplyOverride(name, iter[1..k - 1], epos[k])
    BY <1>7, <2>1, <2>2
  <2>. QED
    BY <1>1, <2>3
<1>11. DOMAIN after = 0..n /\ after[n] = iter[1..n]
  BY <1>1
<1> HIDE DEF after
<1>12. \A k \in 0..n : after[k] \in Results
  <2> DEFINE S == {k \in Nat : k <= n => after[k] \in Results}
  <2>1. 0 \in S
    BY <1>1, <1>9
  <2>2. ASSUME NEW k \in Nat, k \in S, k + 1 <= n
        PROVE  after[k + 1] \in Results
    <3>1. after[k] \in Results /\ k + 1 \in 1..n /\ (k + 1) - 1 = k
      BY <1>1, <2>2
    <3>2. after[k + 1] = ApplyOverride(name, after[k], epos[k + 1])
      BY <1>10, <3>1
    <3>. QED
      BY <1>2, <3>1, <3>2
  <2>3. \A k \in Nat : k \in S => k + 1 \in S
    BY <2>2
  <2> HIDE DEF S
  <2>4. Nat \subseteq S
    BY <2>1, <2>3, SetInduction
  <2>. QED
    BY <1>1, <2>4 DEF S
<1>13. after \in [0..n -> Results]
  <2>1. after = [k \in 0..n |-> after[k]]
    BY DEF after
  <2>. QED
    BY <1>12, <2>1
<1>14. OverrideOptions(name, list) = after[n]
  BY <1>1, <1>8, <1>11
<1>. QED
  BY <1>9, <1>10, <1>13, <1>14 DEF Overridden

\* The entries up to k that have a schema for name.
OverridingUpTo(k, name) == {i \in 1..k : epos[i].name = name /\ epos[i].schema # Unset}

\* What the loop keeps true: of list, the options it started with, and of its
\* result after k entries.
OverriddenUpTo(k, name, list, result) ==
  /\ ~Given(list, "new_version") => ~Given(result.options, "new_version")
  /\ OverridingUpTo(k, name) = {} => result.options = list
  /\ \A j \in DOMAIN list : list[j].name # "schema" =>
       \E i \in DOMAIN result.options : result.options[i] = list[j]
  /\ result.error = "none" =>
       \A m \in OverridingUpTo(k, name) :
         (\A i \in OverridingUpTo(k, name) : i <= m) =>
           ValuesGiven(result.options, "schema") = {epos[m].schema}
  /\ \/ Len(result.options) <= Len(list)
     \/ Given(result.options, "schema") /\ Len(result.options) <= Len(list) + 1

\* One entry keeps what is known of those before it.
LEMMA OverrideStep ==
  ASSUME NEW name, NEW list \in Seq(Options), NEW result \in Results,
         NEW k \in Nat, epos[k + 1].schema \in Values \cup {Unset},
         OverriddenUpTo(k, name, list, result)
  PROVE  OverriddenUpTo(k + 1, name, list, ApplyOverride(name, result, epos[k + 1]))
<1> DEFINE epo == epos[k + 1]
    old == result.options
<1>1. old \in Seq(Options) /\ result.error \in {"none", "conflict"}
  BY DEF Results
<1>2. \A i \in 1..k + 1 : i \in 1..k \/ i = k + 1
  OBVIOUS
<1>3. \A i \in 1..k : i \in 1..k + 1
  OBVIOUS
<1>4. CASE epo.name # name \/ epo.schema = Unset
  <2>1. OverridingUpTo(k + 1, name) = OverridingUpTo(k, name)
    BY <1>2, <1>3, <1>4 DEF OverridingUpTo
  <2>2. OverriddenUpTo(k + 1, name, list, result)
    BY <2>1 DEF OverriddenUpTo
  <2>3. CASE ApplyOverride(name, result, epo) = result
    BY <2>2, <2>3
  <2>4. CASE ApplyOverride(name, result, epo) = Error("conflict", old)
    BY <2>2, <2>4 DEF OverriddenUpTo, Error
  <2>. QED
    BY <1>4, <2>3, <2>4 DEF ApplyOverride
<1>5. CASE epo.name = name /\ epo.schema # Unset /\ result.error # "none"
  <2>1. ApplyOverride(name, result, epo) = result
    BY <1>5 DEF ApplyOverride
  <2>2. OverridingUpTo(k + 1, name) # {}
    BY <1>5 DEF OverridingUpTo
  <2>. QED
    BY <1>5, <2>1, <2>2 DEF OverriddenUpTo
<1>6. CASE /\ epo.name = name /\ epo.schema # Unset /\ result.error = "none"
           /\ GivenTwice(old, "schema")
  <2>1. ApplyOverride(name, result, epo) = Error("conflict", old)
    BY <1>6 DEF ApplyOverride
  <2>2. OverridingUpTo(k + 1, name) # {}
    BY <1>6 DEF OverridingUpTo
  <2>. QED
    BY <2>1, <2>2 DEF OverriddenUpTo, Error
<1>7. CASE /\ epo.name = name /\ epo.schema # Unset /\ result.error = "none"
           /\ ~GivenTwice(old, "schema")
  <2> DEFINE new == OverrideSchema(epo.schema, old)
  <2>1. ApplyOverride(name, result, epo) = Ok(new)
    BY <1>7 DEF ApplyOverride
  <2>2. /\ new \in Seq(Options)
        /\ Given(new, "schema")
        /\ ValuesGiven(new, "schema") = {epo.schema}
        /\ ~Given(old, "new_version") => ~Given(new, "new_version")
        /\ \A j \in DOMAIN old : old[j].name # "schema" =>
             \E i \in DOMAIN new : new[i] = old[j]
        /\ Len(new) <= Len(old) + 1
        /\ Given(old, "schema") => Len(new) <= Len(old)
    BY <1>1, <1>7, OverrideSchemaReplaces
  <2> HIDE DEF new
  <2>3. k + 1 \in OverridingUpTo(k + 1, name)
    BY <1>7 DEF OverridingUpTo
  <2>4. \A m \in OverridingUpTo(k + 1, name) :
          (\A i \in OverridingUpTo(k + 1, name) : i <= m) => m = k + 1
    BY <2>3 DEF OverridingUpTo
  <2>5. \A j \in DOMAIN list : list[j].name # "schema" =>
          \E i \in DOMAIN new : new[i] = list[j]
    BY <2>2 DEF OverriddenUpTo
  <2>6. Len(new) <= Len(list) + 1
    <3>1. Len(old) \in Nat /\ Len(new) \in Nat /\ Len(list) \in Nat
      BY <1>1, <2>2
    <3>2. \/ Len(old) <= Len(list)
          \/ Given(old, "schema") /\ Len(old) <= Len(list) + 1
      BY DEF OverriddenUpTo
    <3>. QED
      BY <2>2, <3>1, <3>2
  <2>7. ~Given(list, "new_version") => ~Given(new, "new_version")
    BY <2>2 DEF OverriddenUpTo
  <2>. QED
    BY <2>1, <2>2, <2>3, <2>4, <2>5, <2>6, <2>7 DEF OverriddenUpTo, Ok
<1>. QED
  BY <1>4, <1>5, <1>6, <1>7

\* What override_ext_options returns.
LEMMA OverrideOptionsResult ==
  ASSUME epos \in Overrides, NEW name, NEW list \in Seq(Options)
  PROVE  /\ OverrideOptions(name, list) \in Results
         /\ OverriddenUpTo(Len(epos), name, list, OverrideOptions(name, list))
<1> DEFINE n == Len(epos)
<1>1. PICK after \in [0..n -> Results] : Overridden(after, name, list)
  BY OverrideLoop
<1>2. n \in Nat /\ \A i \in 1..n : epos[i].schema \in Values \cup {Unset}
  BY EntriesType
<1> HIDE DEF n
<1> DEFINE Good(k) == OverriddenUpTo(k, name, list, after[k])
<1>3. Good(0)
  <2>1. after[0] = Ok(list)
    BY <1>1 DEF Overridden
  <2>2. OverridingUpTo(0, name) = {}
    BY DEF OverridingUpTo
  <2>. QED
    BY <2>1, <2>2 DEF OverriddenUpTo, Ok
<1>4. ASSUME NEW k \in Nat, k + 1 <= n, Good(k)
      PROVE  Good(k + 1)
  <2>1. k + 1 \in 1..n /\ (k + 1) - 1 = k /\ after[k] \in Results
    BY <1>2, <1>4
  <2>2. after[k + 1] = ApplyOverride(name, after[k], epos[k + 1])
    BY <1>1, <2>1 DEF Overridden, n
  <2>3. epos[k + 1].schema \in Values \cup {Unset}
    BY <1>2, <2>1
  <2>. QED
    BY <1>4, <2>1, <2>2, <2>3, OverrideStep
<1> HIDE DEF Good
<1>5. Good(n)
  <2> DEFINE S == {k \in Nat : k <= n => Good(k)}
  <2>1. 0 \in S /\ \A k \in Nat : k \in S => k + 1 \in S
    BY <1>2, <1>3, <1>4
  <2> HIDE DEF S
  <2>2. n \in S
    BY <1>2, <2>1, SetInduction
  <2>. QED
    BY <2>2 DEF S
<1>6. OverrideOptions(name, list) = after[n] /\ after[n] \in Results
  BY <1>1, <1>2 DEF Overridden, n
<1>. QED
  BY <1>5, <1>6 DEF Good, n

-----------------------------------------------------------------------------
(* Versions and resources *)

\* What restrict_version_specification returns.
LEMMA RestrictVersionResult ==
  ASSUME NEW user, NEW list \in Seq(Options)
  PROVE  LET restricted == RestrictVersion(user, list) IN
         /\ restricted.error \in {"none", "version"}
         /\ restricted.options \in Seq(Options)
         /\ Len(restricted.options) <= Len(list)
         /\ restricted.error = "none" /\ mode # "off" /\ ~Exempt(user) =>
              ~Given(restricted.options, "new_version")
         /\ restricted.error = "none" => \A j \in DOMAIN list :
              \/ \E i \in DOMAIN restricted.options : restricted.options[i] = list[j]
              \/ list[j].name = "new_version" /\ mode \notin {"off", "error"} /\ ~Exempt(user)
<1> DEFINE rest == Without(list, "new_version")
<1>1. /\ rest \in Seq(Options)
      /\ ~Given(rest, "new_version")
      /\ \A j \in DOMAIN list : list[j].name # "new_version" =>
           \E i \in DOMAIN rest : rest[i] = list[j]
      /\ Len(rest) <= Len(list)
  BY WithoutKeepsOthers
<1> HIDE DEF rest
<1>2. CASE mode = "off" \/ Exempt(user) \/ ~Given(list, "new_version")
  <2>1. RestrictVersion(user, list) = Ok(list)
    BY <1>2 DEF RestrictVersion
  <2>2. Len(list) \in Nat
    OBVIOUS
  <2>. QED
    BY <1>2, <2>1, <2>2 DEF Ok
<1>3. CASE ~(mode = "off" \/ Exempt(user) \/ ~Given(list, "new_version")) /\ mode = "error"
  <2>1. RestrictVersion(user, list) = Error("version", list)
    BY <1>3 DEF RestrictVersion
  <2>2. Len(list) \in Nat
    OBVIOUS
  <2>. QED
    BY <2>1, <2>2 DEF Error
<1>4. CASE ~(mode = "off" \/ Exempt(user) \/ ~Given(list, "new_version")) /\ mode # "error"
  <2>1. RestrictVersion(user, list) = Ok(rest)
    BY <1>4 DEF RestrictVersion, rest
  <2>. QED
    BY <1>1, <1>4, <2>1 DEF Ok
<1>. QED
  BY <1>2, <1>3, <1>4

\* A size that the test lets pass is met, whatever its sign.
LEMMA SizeIsMet ==
  ASSUME ExtensionsAssumption,
         NEW size \in -(SizeMax \div 2) - 1..SizeMax \div 2,
         NEW available \in 0..SizeMax \div 2,
         ~(size # 0 /\ AsSize(size) > available)
  PROVE  size \in 0..available
<1> DEFINE half == SizeMax \div 2
    modulus == SizeMax + 1
<1>1. half \in Nat /\ modulus = 2 * half + 2
  BY DEF ExtensionsAssumption
<1>2. size % modulus = AsSize(size)
  BY DEF AsSize
<1>3. size \in -half - 1..half /\ available \in 0..half
  OBVIOUS
<1> HIDE DEF half, modulus
<1>4. modulus \in Nat /\ size \in Int /\ size < modulus /\ -modulus <= size
  BY <1>1, <1>3
<1>5. CASE size < 0
  <2>1. size % modulus = size + modulus
    BY <1>4, <1>5
  <2>. QED
    BY <1>1, <1>2, <1>3, <1>5, <2>1
<1>6. CASE 0 <= size
  <2>1. size % modulus = size
    BY <1>4, <1>6
  <2>. QED
    BY <1>2, <1>3, <1>6, <2>1
<1>. QED
  BY <1>3, <1>5, <1>6

\* What constrain_extension leaves.
LEMMA ConstrainedIsMet ==
  ASSUME cexts \in Constraints, machine \in Machines, NEW name, NEW list,
         ConstrainExtension(name, list).error = "none",
         NEW i \in DOMAIN cexts, cexts[i].name = name
  PROVE  /\ cexts[i].cpu <= machine.cpu \/ cexts[i].cpu = 0
         /\ cexts[i].mem \in 0..machine.mem
         /\ cexts[i].disk \in 0..machine.disk
<1>1. ~Exceeds(cexts[i])
  BY DEF ConstrainExtension, Error
<1>2. /\ machine.cpu \in Nat
      /\ machine.mem \in 0..SizeMax \div 2 /\ machine.disk \in 0..SizeMax \div 2
  BY SizesAssumption
<1>3. /\ cexts[i].cpu \in Int
      /\ cexts[i].mem \in -(SizeMax \div 2) - 1..SizeMax \div 2
      /\ cexts[i].disk \in -(SizeMax \div 2) - 1..SizeMax \div 2
  BY SizesAssumption
<1>4. cexts[i].mem \in 0..machine.mem
  BY <1>1, <1>2, <1>3, ExtensionsAssumption, SizeIsMet DEF Exceeds
<1>5. cexts[i].disk \in 0..machine.disk
  BY <1>1, <1>2, <1>3, ExtensionsAssumption, SizeIsMet DEF Exceeds
<1>. QED
  BY <1>1, <1>2, <1>3, <1>4, <1>5 DEF Exceeds

-----------------------------------------------------------------------------
(* The handlers *)

\* What the properties ask of an execution by user, of the options in list: of
\* the error, if any, and of the options it comes to.
Keeps(user, list, outcome) ==
  /\ outcome.options \in Seq(Options)
  /\ Len(outcome.options) <= Len(list) + 1
  /\ outcome.error # "ran"
  /\ outcome.error = "none" =>
       /\ mode # "off" /\ ~Exempt(user) => ~Given(outcome.options, "new_version")
       /\ source.kind = "create" /\ Overriding # {} =>
            ValuesGiven(outcome.options, "schema") = {epos[Max(Overriding)].schema}
       /\ \A j \in DOMAIN list :
            \/ \E i \in DOMAIN outcome.options : outcome.options[i] = list[j]
            \/ list[j].name = "new_version" /\ mode = "warn" /\ ~Exempt(user)
            \/ list[j].name = "schema" /\ Overriding # {}
       /\ source.kind = "create" =>
            \A i \in DOMAIN cexts : cexts[i].name = source.name =>
              /\ cexts[i].cpu <= machine.cpu \/ cexts[i].cpu = 0
              /\ cexts[i].mem \in 0..machine.mem
              /\ cexts[i].disk \in 0..machine.disk

\* CREATE EXTENSION keeps the options that the settings do not speak of.
LEMMA CreateKeeps ==
  ASSUME TypeOK, NEW user, NEW list \in Seq(Options)
  PROVE  Keeps(user, list, CreateOptions(user, list))
<1> DEFINE restricted == RestrictVersion(user, list)
    checked == ConstrainExtension(source.name, restricted.options)
    overridden == OverrideOptions(source.name, restricted.options)
<1>1. /\ restricted.error \in {"none", "version"}
      /\ restricted.options \in Seq(Options)
      /\ Len(restricted.options) <= Len(list)
      /\ restricted.error = "none" /\ mode # "off" /\ ~Exempt(user) =>
           ~Given(restricted.options, "new_version")
      /\ restricted.error = "none" => \A j \in DOMAIN list :
           \/ \E i \in DOMAIN restricted.options : restricted.options[i] = list[j]
           \/ list[j].name = "new_version" /\ mode \notin {"off", "error"} /\ ~Exempt(user)
  BY RestrictVersionResult
<1> HIDE DEF restricted
<1>2. Len(list) \in Nat /\ Len(restricted.options) \in Nat
  BY <1>1
<1>3. CASE restricted.error # "none"
  <2>1. CreateOptions(user, list) = restricted
    BY <1>3 DEF CreateOptions, Then, restricted
  <2>. QED
    BY <1>1, <1>2, <1>3, <2>1 DEF Keeps
<1>4. CASE restricted.error = "none" /\ checked.error # "none"
  <2>1. CreateOptions(user, list) = checked
    BY <1>4 DEF CreateOptions, Then, restricted
  <2>2. checked = Error("resources", restricted.options)
    BY <1>4 DEF ConstrainExtension, Ok
  <2> HIDE DEF checked
  <2>3. checked.error = "resources" /\ checked.options = restricted.options
    BY <2>2 DEF Error
  <2>. QED
    BY <1>1, <1>2, <2>1, <2>3 DEF Keeps
<1>5. CASE restricted.error = "none" /\ checked.error = "none"
  <2>1. checked = Ok(restricted.options)
    BY <1>5 DEF ConstrainExtension, Error
  <2>2. CreateOptions(user, list) = overridden
    BY <1>5, <2>1 DEF CreateOptions, Then, restricted, Ok
  <2>3. epos \in Overrides /\ cexts \in Constraints /\ machine \in Machines /\ mode \in Modes
    BY DEF TypeOK
  <2>4. /\ overridden \in Results
        /\ OverriddenUpTo(Len(epos), source.name, restricted.options, overridden)
    BY <1>1, <2>3, OverrideOptionsResult
  <2>5. \A i \in DOMAIN cexts : cexts[i].name = source.name =>
          /\ cexts[i].cpu <= machine.cpu \/ cexts[i].cpu = 0
          /\ cexts[i].mem \in 0..machine.mem
          /\ cexts[i].disk \in 0..machine.disk
    BY <1>5, <2>3, ConstrainedIsMet
  <2> HIDE DEF overridden, checked
  <2>6. /\ overridden.error \in {"none", "conflict"}
        /\ overridden.options \in Seq(Options) /\ Len(overridden.options) \in Nat
    BY <2>4 DEF Results
  <2>7. Overriding = OverridingUpTo(Len(epos), source.name)
    BY <2>3, EntriesType DEF Overriding, OverridingUpTo
  <2>8. ASSUME Overriding # {}
        PROVE  Max(Overriding) \in Overriding /\ \A i \in Overriding : i <= Max(Overriding)
    <3>1. Overriding \in SUBSET (1..Len(epos)) /\ Len(epos) \in Nat
      BY <2>3, <2>7, EntriesType DEF OverridingUpTo
    <3>. QED
      BY <2>8, <3>1, MaxOfSome
  <2>9. overridden.error = "none" /\ Overriding # {} =>
          ValuesGiven(overridden.options, "schema") = {epos[Max(Overriding)].schema}
    BY <2>4, <2>7, <2>8 DEF OverriddenUpTo
  <2>10. Len(overridden.options) <= Len(list) + 1
    <3>1. \/ Len(overridden.options) <= Len(restricted.options)
          \/ Len(overridden.options) <= Len(restricted.options) + 1
      BY <2>4 DEF OverriddenUpTo
    <3>. QED
      BY <1>1, <1>2, <2>6, <3>1
  <2>11. mode # "off" /\ ~Exempt(user) => ~Given(overridden.options, "new_version")
    BY <1>1, <1>5, <2>4 DEF OverriddenUpTo
  <2>12. ASSUME NEW j \in DOMAIN list
         PROVE  \/ \E i \in DOMAIN overridden.options : overridden.options[i] = list[j]
                \/ list[j].name = "new_version" /\ mode = "warn" /\ ~Exempt(user)
                \/ list[j].name = "schema" /\ Overriding # {}
    <3>1. CASE list[j].name = "new_version" /\ mode \notin {"off", "error"} /\ ~Exempt(user)
      BY <2>3, <3>1 DEF Modes
    <3>2. CASE \E i \in DOMAIN restricted.options : restricted.options[i] = list[j]
      BY <2>4, <2>7, <3>2 DEF OverriddenUpTo
    <3>. QED
      BY <1>1, <1>5, <3>1, <3>2
  <2>. QED
    BY <2>2, <2>5, <2>6, <2>9, <2>10, <2>11, <2>12 DEF Keeps
<1>. QED
  BY <1>3, <1>4, <1>5

\* ALTER EXTENSION does too.
LEMMA AlterKeeps ==
  ASSUME TypeOK, NEW user, NEW list \in Seq(Options), source.kind = "alter"
  PROVE  Keeps(user, list, AlterOptions(user, list))
<1>1. Len(list) \in Nat /\ mode \in Modes
  BY DEF TypeOK
<1>2. CASE IsSuper(user)
  <2>1. AlterOptions(user, list) = Ok(list) /\ Exempt(user)
    BY <1>2 DEF AlterOptions, Exempt
  <2>. QED
    BY <1>1, <2>1 DEF Keeps, Ok
<1>3. CASE ~IsSuper(user)
  <2> DEFINE restricted == RestrictVersion(user, list)
  <2>1. AlterOptions(user, list) = restricted
    BY <1>3 DEF AlterOptions
  <2>2. /\ restricted.error \in {"none", "version"}
        /\ restricted.options \in Seq(Options)
        /\ Len(restricted.options) <= Len(list)
        /\ restricted.error = "none" /\ mode # "off" /\ ~Exempt(user) =>
             ~Given(restricted.options, "new_version")
        /\ restricted.error = "none" => \A j \in DOMAIN list :
             \/ \E i \in DOMAIN restricted.options : restricted.options[i] = list[j]
             \/ list[j].name = "new_version" /\ mode \notin {"off", "error"} /\ ~Exempt(user)
    BY RestrictVersionResult
  <2> HIDE DEF restricted
  <2>3. Len(restricted.options) \in Nat
    BY <2>2
  <2>. QED
    BY <1>1, <2>1, <2>2, <2>3 DEF Keeps, Modes
<1>. QED
  BY <1>2, <1>3

-----------------------------------------------------------------------------
(* The steps *)

\* What is written has all its options in the tree.
LEMMA SourceOptions ==
  ASSUME source \in Statements
  PROVE  /\ source.options \in Seq(Options)
         /\ Len(source.options) <= MaxOptions
         /\ \A i \in DOMAIN source.options : source.options[i].place = "tree"
<1> DEFINE written == {option \in Options : option.place = "tree"}
<1>1. source.options \in Seq(written) /\ Len(source.options) <= MaxOptions
  BY StatementsAssumption
<1>2. \A option \in written : option \in Options /\ option.place = "tree"
  OBVIOUS
<1> HIDE DEF written
<1>3. \A i \in DOMAIN source.options : source.options[i] \in written
  BY <1>1
<1>4. source.options \in Seq(Options)
  BY <1>1, <1>2, <1>3
<1>. QED
  BY <1>1, <1>2, <1>3, <1>4

\* Whatever is read of freed options, it is a list of options; a tree that has
\* not been executed is read as it was written.
LEMMA ReadingsAreOptions ==
  ASSUME TypeOK, FreshTree, NEW list \in Readings
  PROVE  /\ list \in Seq(Options)
         /\ Len(list) = Len(options)
         /\ fresh => list = source.options
<1>1. options \in Seq(Options) /\ source \in Statements
  BY DEF TypeOK
<1>2. PICK lost \in SUBSET {i \in DOMAIN options : options[i].place = "freed"} :
        list = [i \in DOMAIN options |->
                  IF i \in lost THEN Garbage(options[i]) ELSE options[i]]
  BY DEF Readings
<1>3. ASSUME NEW i \in DOMAIN options
      PROVE  options[i] \in Options /\ Garbage(options[i]) \in Options
  <2>1. options[i] \in Options
    BY <1>1
  <2>. QED
    BY <2>1 DEF Garbage, Options, OptionNames
<1>4. DOMAIN options = 1..Len(options) /\ Len(options) \in Nat
  BY <1>1
<1>5. list \in Seq(Options) /\ Len(list) = Len(options)
  BY <1>2, <1>3, <1>4
<1>6. ASSUME fresh
      PROVE  list = source.options
  <2>1. options = source.options
    BY <1>6 DEF FreshTree
  <2>2. \A i \in DOMAIN options : options[i].place = "tree"
    BY <1>1, <2>1, SourceOptions
  <2>3. lost = {}
    BY <2>2
  <2>4. options = [i \in DOMAIN options |-> options[i]]
    BY <1>1
  <2>. QED
    BY <1>2, <2>1, <2>3, <2>4
<1>. QED
  BY <1>5, <1>6

\* The end of a handler.
LEMMA FinishKeepsInv ==
  ASSUME ExtInv, NEW user, NEW list \in Readings, NEW outcome,
         Len(options) < MaxOptions,
         Keeps(user, list, outcome),
         Finish(user, outcome)
  PROVE  ExtInv'
<1>1. TypeOK /\ FreshTree
  BY DEF ExtInv
<1>2. /\ list \in Seq(Options) /\ Len(list) = Len(options)
      /\ fresh => list = source.options
  BY <1>1, ReadingsAreOptions
<1>3. UNCHANGED <<mode, epos, cexts, machine, source>> /\ fresh' = FALSE
  BY DEF Finish
<1>4. outcome.options \in Seq(Options)
  BY DEF Keeps
<1>5. /\ last'.user = user /\ last'.options = outcome.options /\ last'.fresh = fresh
      /\ last'.result = "ran" => outcome.error = "none"
  BY DEF Finish, Keeps
<1>6. TypeOK'
  <2>1. ASSUME NEW i \in DOMAIN outcome.options
        PROVE  /\ outcome.options[i] \in Options
               /\ [outcome.options[i] EXCEPT !.place = "freed"] \in Options
    <3>1. outcome.options[i] \in Options
      BY <1>4
    <3>. QED
      BY <3>1 DEF Options, Places
  <2>2. DOMAIN outcome.options = 1..Len(outcome.options) /\ Len(outcome.options) \in Nat
    BY <1>4
  <2>3. options' \in Seq(Options) /\ Len(options') = Len(outcome.options)
    BY <2>1, <2>2 DEF Finish
  <2>4. Len(options') <= MaxOptions
    <3>1. Len(list) \in Nat /\ MaxOptions \in Nat
      BY <1>2, ExtensionsAssumption DEF ExtensionsAssumption
    <3>. QED
      BY <1>2, <2>2, <2>3, <3>1 DEF Keeps
  <2>. QED
    BY <1>1, <1>3, <1>4, <1>5, <2>3, <2>4 DEF TypeOK
<1>7. FreshTree'
  BY <1>3 DEF FreshTree
<1>8. VersionIsRestricted'
  BY <1>3, <1>5 DEF VersionIsRestricted, Ran, Keeps, Exempt, IsSuper
<1>9. Overriding' = Overriding
  BY <1>3 DEF Overriding
<1>10. OverrideDecidesSchema'
  <2>1. ASSUME Ran', source.kind = "create", Overriding # {}
        PROVE  ValuesGiven(outcome.options, "schema") = {epos[Max(Overriding)].schema}
    BY <1>5, <2>1 DEF Ran, Keeps
  <2>. QED
    BY <1>3, <1>5, <1>9, <2>1 DEF OverrideDecidesSchema, ValuesGiven
<1>11. NothingElseChanges'
  <2>1. ASSUME Ran', fresh, NEW j \in DOMAIN source.options
        PROVE  \/ \E i \in DOMAIN outcome.options : outcome.options[i] = source.options[j]
               \/ source.options[j].name = "new_version" /\ mode = "warn" /\ ~Exempt(user)
               \/ source.options[j].name = "schema" /\ Overriding # {}
    BY <1>2, <1>5, <2>1 DEF Ran, Keeps
  <2>. QED
    BY <1>3, <1>5, <1>9, <2>1 DEF NothingElseChanges, Exempt, IsSuper
<1>12. ConstraintsMet'
  BY <1>3, <1>5 DEF ConstraintsMet, Ran, Keeps
<1>. QED
  BY <1>6, <1>7, <1>8, <1>10, <1>11, <1>12 DEF ExtInv

\* An execution keeps the invariant.
LEMMA ExecuteKeepsInv ==
  ASSUME ExtInv, NEW user \in Users, Execute(user)
  PROVE  ExtInv'
<1>1. PICK list \in Readings : CreateExtension(user, list) \/ AlterExtension(user, list)
  BY DEF Execute
<1>2. Len(options) < MaxOptions /\ TypeOK /\ list \in Seq(Options)
  BY ReadingsAreOptions DEF Execute, ExtInv
<1>3. CASE CreateExtension(user, list)
  BY <1>2, <1>3, CreateKeeps, FinishKeepsInv DEF CreateExtension
<1>4. CASE AlterExtension(user, list)
  BY <1>2, <1>4, AlterKeeps, FinishKeepsInv DEF AlterExtension
<1>. QED
  BY <1>1, <1>3, <1>4

\* The steps after which nothing has run under the settings of the moment.
LEMMA OthersKeepInv ==
  ASSUME ExtInv, Forget \/ Reconfigure \/ ChangeMachine
  PROVE  ExtInv'
<1>1. last' = NoRun /\ NoRun.options \in Seq(Options) /\ NoRun.result # "ran"
  BY DEF Forget, Reconfigure, ChangeMachine, NoRun
<1>2. ~Ran'
  BY <1>1 DEF Ran
<1>3. /\ VersionIsRestricted' /\ OverrideDecidesSchema'
      /\ NothingElseChanges' /\ ConstraintsMet'
  BY <1>2 DEF VersionIsRestricted, OverrideDecidesSchema, NothingElseChanges, ConstraintsMet
<1>4. TypeOK' /\ FreshTree'
  BY <1>1, SourceOptions
     DEF Forget, Reconfigure, ChangeMachine, ExtInv, TypeOK, FreshTree
<1>. QED
  BY <1>3, <1>4 DEF ExtInv

-----------------------------------------------------------------------------
(* The theorems *)

\* The inductive invariant: the list in the tree stays a list of options, and
\* what ran last kept to the settings it ran under (restrict_version_specification,
\* constrain_extension and override_ext_options, as supautils_hook calls them).
THEOREM Invariance == Spec => []ExtInv
<1>1. Init => ExtInv
  <2>1. ASSUME Init PROVE ExtInv
    <3>1. ~Ran /\ last.options \in Seq(Options)
      BY <2>1 DEF Init, NoRun, Ran
    <3>2. TypeOK /\ FreshTree
      BY <2>1, <3>1, SourceOptions DEF Init, TypeOK, FreshTree
    <3>. QED
      BY <3>1, <3>2 DEF ExtInv, VersionIsRestricted, OverrideDecidesSchema,
                        NothingElseChanges, ConstraintsMet
  <2>. QED
    BY <2>1
<1>2. ExtInv /\ [Next]_vars => ExtInv'
  <2> SUFFICES ASSUME ExtInv, [Next]_vars PROVE ExtInv'
    OBVIOUS
  <2>1. CASE \E user \in Users : Execute(user)
    BY <2>1, ExecuteKeepsInv
  <2>2. CASE Forget \/ Reconfigure \/ ChangeMachine
    BY <2>2, OthersKeepInv
  <2>3. CASE UNCHANGED vars
    <3>1. UNCHANGED <<mode, epos, cexts, machine, source, options, fresh, last>>
      BY <2>3 DEF vars
    <3>2. TypeOK' /\ FreshTree'
      BY <3>1 DEF ExtInv, TypeOK, FreshTree
    <3>3. VersionIsRestricted'
      BY <3>1 DEF ExtInv, VersionIsRestricted, Ran
    <3>4. OverrideDecidesSchema'
      BY <3>1 DEF ExtInv, OverrideDecidesSchema, Overriding, Ran
    <3>5. NothingElseChanges'
      BY <3>1 DEF ExtInv, NothingElseChanges, Overriding, Ran
    <3>6. ConstraintsMet'
      BY <3>1 DEF ExtInv, ConstraintsMet, Ran
    <3>. QED
      BY <3>2, <3>3, <3>4, <3>5, <3>6 DEF ExtInv
  <2>. QED
    BY <2>1, <2>2, <2>3 DEF Next
<1>. QED
  BY <1>1, <1>2, PTL DEF Spec

\* restrict_version_specification: no execution of a role that is not exempt has
\* a version while the restriction is on, for every list of options, in a fresh
\* tree or in one that was executed before.
THEOREM VersionsStayRestricted == Spec => []VersionIsRestricted
BY Invariance, PTL DEF ExtInv

\* override_ext_options: CREATE EXTENSION runs with the schema of the setting's
\* last entry for the extension, for every setting and every state of the tree.
THEOREM OverridesDecide == Spec => []OverrideDecidesSchema
BY Invariance, PTL DEF ExtInv

\* The hook changes nothing else of the options that were written.
THEOREM OptionsAreKept == Spec => []NothingElseChanges
BY Invariance, PTL DEF ExtInv

\* constrain_extension: the machine has what the setting demands, though sizes
\* are signed when they are parsed and unsigned when they are compared.
THEOREM ResourcesSuffice == Spec => []ConstraintsMet
BY Invariance, PTL DEF ExtInv

=============================================================================
