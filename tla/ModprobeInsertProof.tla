------------------------ MODULE ModprobeInsertProof ------------------------
(***************************************************************************)
(* Whatever the graph of modules, the probe lists and the number of        *)
(* processes: the exit status of "modprobe" is true, a module that fails   *)
(* keeps no other one out, and with FAIL_ON_LOADED only the process that   *)
(* inserted a module is told that it did.                                  *)
(***************************************************************************)
EXTENDS ModprobeInsert, ProbeListProof, SequenceTheorems

----------------------------------------------------------------------------
(* The invariant, with the situation, the kernel's table and the process's *)
(* state as parameters.                                                    *)

Here(k, m) == k[m] \in {"coming", "live", "builtin"}

Exempted(s) == s.blacklist \cup s.commands \cup s.fails

Inserting(s, p) == "dry_run" \notin s.options[p] /\ "lookup_only" \notin s.options[p]

\* The table: no module is on its way out, and one that is there has what it uses.
TableSound(k) ==
  /\ k \in [Mod -> {"absent", "coming", "live", "builtin"}]
  /\ \A m \in Mod : Here(k, m) => \A d \in Uses[m] : k[d] \in {"live", "builtin"}

ModsOf(s, p, j) == Lookup[s.args[p][j]]
TargetOf(s, p, r) == ModsOf(s, p, r.arg)[r.mod]
AtOf(s, p, r) == IF r.i = 0 THEN TargetOf(s, p, r) ELSE r.list[r.i]

\* The probe list of m, and what kmod_module_apply_filter may make of it
ListOf(s, p, m) == (IF "ignore_command" \in s.options[p] THEN BareLists[m] ELSE FullLists[m]).list
ListedFor(s, p, m) == {ListOf(s, p, m)[i] : i \in 1..Len(ListOf(s, p, m))}

FilteredFor(s, p, m, list) ==
  /\ list \in Seq(Mod)
  /\ \A d \in ListedFor(s, p, m) : d \notin s.blacklist => \E i \in 1..Len(list) : list[i] = d
  /\ ListedFor(s, p, m) \cap s.blacklist = {} => list = ListOf(s, p, m)

\* What a module is when the loop over a probe list has passed it; target is the list's module,
Passed(s, k, p, did, m, target) ==
  m \notin Exempted(s) =>
    Here(k, m) /\ ("fail_on_loaded" \in s.options[p] /\ m = target => m \in did)

\* when insmod has tried it,
Tried(s, k, p, m) == ListedFor(s, p, m) \cap (Exempted(s) \cup s.nofile) = {} => Here(k, m)

\* and what is true of the modules of an argument when insmod has been through them.
ArgumentDone(s, k, p, r, j) ==
  LET mods == ModsOf(s, p, j)
  IN  /\ \A n \in 1..Len(mods) : Tried(s, k, p, mods[n])
      /\ mods # <<>> /\ r.status = "0" => Passed(s, k, p, r.did, mods[Len(mods)], mods[Len(mods)])

Errors == {"0", "1", "EEXIST", "ENOENT", "ENOSYS", "EIO", "signal", "blacklisted"}
Working == {"probe", "stat", "next", "insert", "init"}

Records ==
  [arg : Nat, status : Errors, did : SUBSET Mod, i : Nat, list : Seq(Mod), ignorecmd : SUBSET Mod,
   err : Errors, mod : Nat, pc : Working \cup {"unknown", "print", "done"}]

\* Where a process is
Placed(s, p, r) ==
  /\ r.arg \in 1..Len(s.args[p])
  /\ r.pc = "done" => r.arg = Len(s.args[p])
  /\ r.pc = "unknown" => ModsOf(s, p, r.arg) = <<>>
  /\ r.pc = "print" => ~Inserting(s, p)
  /\ r.pc \in Working => r.mod \in 1..Len(ModsOf(s, p, r.arg)) /\ r.i \in 0..Len(r.list)
  /\ r.pc = "probe" => r.i = 0
  /\ r.pc \in {"next", "insert", "init"} => r.i \in 1..Len(r.list)

\* and what it has done
ArgumentsDone(s, k, p, r) ==
  \A j \in 1..Len(s.args[p]) : j < r.arg \/ r.pc = "done" => ArgumentDone(s, k, p, r, j)

ModulesTried(s, k, p, r) ==
  r.pc \in Working => \A n \in 1..r.mod - 1 : Tried(s, k, p, ModsOf(s, p, r.arg)[n])

ListPassed(s, k, p, r) ==
  r.pc \in Working /\ r.i # 0 =>
    /\ FilteredFor(s, p, TargetOf(s, p, r), r.list)
    /\ \A j \in 1..r.i - 1 : Passed(s, k, p, r.did, r.list[j], TargetOf(s, p, r))

Doing(s, k, p, r) ==
  /\ Placed(s, p, r)
  /\ r.pc = "init" => k[AtOf(s, p, r)] = "coming"
  /\ Inserting(s, p) => ArgumentsDone(s, k, p, r) /\ ModulesTried(s, k, p, r) /\ ListPassed(s, k, p, r)

IInv ==
  /\ situation \in Situations
  /\ TableSound(kernel)
  /\ ins \in [Inserter -> Records]
  /\ \A p \in Inserter : Doing(situation, kernel, p, ins[p])
  /\ \A p, q \in Inserter : p # q /\ ins[p].pc = "init" /\ ins[q].pc = "init" =>
       AtOf(situation, p, ins[p]) # AtOf(situation, q, ins[q])

----------------------------------------------------------------------------
(* Situations, lists and the filter.                                       *)

\* What is known of a situation
LEMMA SituationIs ==
  ASSUME NEW s \in Situations, NEW p \in Inserter
  PROVE  /\ s.args[p] \in Seq(DOMAIN Lookup) /\ Len(s.args[p]) \in Nat /\ Len(s.args[p]) >= 1
         /\ \A j \in 1..Len(s.args[p]) : ModsOf(s, p, j) \in Seq(Mod) /\ Len(ModsOf(s, p, j)) \in Nat
         /\ Exempted(s) \cup s.nofile \subseteq Mod
         /\ s.endings \subseteq {"0", "1", "EEXIST", "signal"}
<1>1. /\ s.args[p] \in Seq(DOMAIN Lookup) \ {<<>>}
      /\ s.blacklist \cup s.commands \cup s.fails \cup s.nofile \subseteq Mod
      /\ s.endings \subseteq {"0", "1", "EEXIST", "signal"}
  BY SituationsType
<1> DEFINE a == s.args[p]
<1>2. a \in Seq(DOMAIN Lookup) /\ Len(a) \in Nat /\ Len(a) >= 1
  BY <1>1, EmptySeq
<1>3. \A j \in 1..Len(a) : a[j] \in DOMAIN Lookup
  BY <1>2
<1>4. \A j \in 1..Len(a) : Lookup[a[j]] \in Seq(Mod) /\ Len(Lookup[a[j]]) \in Nat
  BY <1>3, LookupType
<1> QED BY <1>1, <1>2, <1>4 DEF ModsOf, Exempted

\* The target of a process at work is a module.
LEMMA TargetIs ==
  ASSUME NEW s \in Situations, NEW p \in Inserter, NEW r \in Records, Placed(s, p, r), r.pc \in Working
  PROVE  /\ TargetOf(s, p, r) \in Mod /\ AtOf(s, p, r) \in Mod
         /\ r.arg \in 1..Len(s.args[p]) /\ ModsOf(s, p, r.arg) \in Seq(Mod)
         /\ r.mod \in 1..Len(ModsOf(s, p, r.arg)) /\ ModsOf(s, p, r.arg) # <<>>
<1>1. /\ r.arg \in 1..Len(s.args[p]) /\ r.mod \in 1..Len(ModsOf(s, p, r.arg)) /\ r.i \in 0..Len(r.list)
  BY DEF Placed
<1>2. ModsOf(s, p, r.arg) \in Seq(Mod)
  BY <1>1, SituationIs
<1>3. ModsOf(s, p, r.arg)[r.mod] \in Mod /\ ModsOf(s, p, r.arg) # <<>>
  BY <1>1, <1>2
<1>4. r.i # 0 => r.list[r.i] \in Mod
  <2>1. r.list \in Seq(Mod)
    BY DEF Records
  <2> QED BY <1>1, <2>1
<1> QED BY <1>1, <1>2, <1>3, <1>4 DEF TargetOf, AtOf

\* A probe list is one of modules; it has its module, and has every module after what
\* this one uses.
LEMMA ListIs ==
  ASSUME NEW s, NEW p, NEW m \in Mod
  PROVE  /\ ListOf(s, p, m) \in Seq(Mod) /\ DepsBefore(ListOf(s, p, m))
         /\ m \in ListedFor(s, p, m) /\ ListedFor(s, p, m) \subseteq Mod
<1>1. PICK ignorecmd \in BOOLEAN : ListOf(s, p, m) = ProbeListOf(m, ignorecmd).list
  BY DEF ListOf, BareLists, FullLists
<1>2. ListSound(m, ignorecmd)
  BY ListsAreSound
<1> DEFINE t == ProbeListOf(m, ignorecmd)
<1>3. t \in ProbeState /\ DepsBefore(t.list) /\ m \in Listed(t)
  BY <1>2 DEF ListSound
<1> HIDE DEF t
<1>4. t.list \in Seq(Mod) /\ m \in {t.list[i] : i \in 1..Len(t.list)}
  BY <1>3 DEF ProbeState, Listed
<1>5. t.list = ListOf(s, p, m)
  BY <1>1 DEF t
<1>6. ListOf(s, p, m) \in Seq(Mod) /\ m \in ListedFor(s, p, m)
  BY <1>4, <1>5 DEF ListedFor
<1>7. ListedFor(s, p, m) \subseteq Mod
  BY <1>6 DEF ListedFor
<1> QED BY <1>3, <1>5, <1>6, <1>7

\* kmod_module_apply_filter leaves out what is blacklisted, and nothing else.
LEMMA FilterIs ==
  ASSUME NEW list \in Seq(Mod)
  PROVE  LET f == ApplyFilter(list)
             listed == {list[i] : i \in 1..Len(list)}
         IN  /\ f \in Seq(Mod)
             /\ \A d \in listed : d \notin situation.blacklist => \E i \in 1..Len(f) : f[i] = d
             /\ listed \cap situation.blacklist = {} => f = list
<1> DEFINE D == Seq(Mod)
           b == situation.blacklist
           call == [output \in D |-> [m \in Mod |-> IF m \in b THEN output ELSE Append(output, m)]]
           Has2(f, i) == \A j \in 1..i : list[j] \notin b => \E l \in 1..Len(f) : f[l] = list[j]
           Same(f, i) == (\A j \in 1..i : list[j] \notin b) =>
                           Len(f) = i /\ \A j \in 1..i : f[j] = list[j]
           L == [i \in 0..Len(list) |-> {f \in D : Has2(f, i) /\ Same(f, i)}]
<1>1. ApplyFilter(list) = ForEach(call, <<>>, list)
  BY Zenon DEF ApplyFilter
<1>2. Len(list) \in Nat /\ \A i \in 1..Len(list) : list[i] \in Mod
  OBVIOUS
<1>3. call \in [D -> [Mod -> D]]
  OBVIOUS
<1>4. <<>> \in D /\ <<>> \in L[0]
  BY <1>2
<1>5. ASSUME NEW i \in 1..Len(list), NEW t \in D, t \in L[i-1] PROVE call[t][list[i]] \in L[i]
  <2>0. i \in Nat /\ i - 1 \in 0..Len(list) /\ i \in 0..Len(list) /\ list[i] \in Mod
    BY <1>2
  <2>1. Has2(t, i - 1) /\ Same(t, i - 1)
    BY <1>5, <2>0
  <2>2. call[t][list[i]] = IF list[i] \in b THEN t ELSE Append(t, list[i])
    BY <2>0
  <2>3. \A j \in 1..i : j = i \/ j \in 1..i - 1
    BY <2>0
  <2>4. CASE list[i] \in b
    <3>1. Has2(t, i) /\ Same(t, i)
      BY <2>0, <2>1, <2>3, <2>4
    <3> QED BY <2>0, <2>2, <2>4, <3>1
  <2>5. CASE list[i] \notin b
    <3> DEFINE f == Append(t, list[i])
    <3>1. f \in D /\ Len(f) = Len(t) + 1 /\ Len(t) \in Nat /\ f[Len(t) + 1] = list[i]
          /\ \A l \in 1..Len(t) : f[l] = t[l]
      BY <2>0
    <3> HIDE DEF f
    <3>2. Has2(f, i)
      <4>1. ASSUME NEW j \in 1..i, list[j] \notin b PROVE \E l \in 1..Len(f) : f[l] = list[j]
        <5>1. CASE j = i
          BY <3>1, <5>1
        <5>2. CASE j \in 1..i - 1
          <6>1. PICK l \in 1..Len(t) : t[l] = list[j]
            BY <2>1, <4>1, <5>2
          <6>2. l \in 1..Len(f) /\ f[l] = list[j]
            BY <3>1, <6>1
          <6> QED BY <6>2
        <5> QED BY <2>3, <5>1, <5>2
      <4> QED BY <4>1
    <3>3. Same(f, i)
      BY <2>0, <2>1, <2>3, <3>1
    <3>4. f \in L[i]
      BY <2>0, <3>1, <3>2, <3>3
    <3> QED BY <2>2, <2>5, <3>4 DEF f
  <2> QED BY <2>4, <2>5
<1>6. Leads(D, L, <<>>, list, call, call)
  <2> HIDE DEF call, L
  <2> QED BY <1>3, <1>4, <1>5 DEF Leads
<1> DEFINE f == ForEach(call, <<>>, list)
<1>7. f \in D /\ f \in L[Len(list)]
  <2> HIDE DEF call, L, D
  <2> QED BY <1>6, LoopRule
<1> HIDE DEF f
<1>8. Has2(f, Len(list)) /\ Same(f, Len(list))
  BY <1>2, <1>7
<1>9. \A i \in 1..Len(list) : list[i] \in {list[j] : j \in 1..Len(list)}
  OBVIOUS
<1>10. ASSUME {list[j] : j \in 1..Len(list)} \cap b = {} PROVE f = list
  <2>1. Len(f) = Len(list) /\ \A j \in 1..Len(list) : f[j] = list[j]
    BY <1>8, <1>9, <1>10
  <2> QED BY <1>7, <2>1
<1>11. \A d \in {list[j] : j \in 1..Len(list)} : d \notin b => \E i \in 1..Len(f) : f[i] = d
  BY <1>8
<1>12. f = ApplyFilter(list)
  BY <1>1 DEF f
<1> QED BY <1>7, <1>10, <1>11, <1>12

----------------------------------------------------------------------------
(* What others do to what is known of a process.                           *)

\* What is there stays there, unless its init function fails.
Stable(s, k, l) == \A m \in Mod : Here(k, m) /\ m \notin s.fails => Here(l, m)

\* So a module that the loop has passed is there still.
LEMMA PassedStays ==
  ASSUME NEW s, NEW k, NEW l, Stable(s, k, l), NEW p, NEW did, NEW more, did \subseteq more,
         NEW m \in Mod, NEW target, Passed(s, k, p, did, m, target)
  PROVE  Passed(s, l, p, more, m, target)
BY DEF Stable, Passed, Exempted

\* A module that nothing keeps out cannot fail: it is on its own list.
LEMMA TriedStays ==
  ASSUME NEW s, NEW k, NEW l, Stable(s, k, l), NEW p, NEW m \in Mod, Tried(s, k, p, m)
  PROVE  Tried(s, l, p, m)
<1>1. m \in ListedFor(s, p, m)
  BY ListIs
<1> QED BY <1>1 DEF Stable, Tried, Exempted

\* An argument stays done when the process goes on.
LEMMA ArgumentStays ==
  ASSUME NEW s \in Situations, NEW k, NEW l, Stable(s, k, l), NEW p \in Inserter,
         NEW r, NEW t, r.did \subseteq t.did, t.status = "0" => r.status = "0",
         NEW j \in 1..Len(s.args[p]), ArgumentDone(s, k, p, r, j)
  PROVE  ArgumentDone(s, l, p, t, j)
<1> DEFINE mods == ModsOf(s, p, j)
           n == Len(mods)
<1>1. mods \in Seq(Mod) /\ n \in Nat
  BY SituationIs
<1>2. \A i \in 1..n : mods[i] \in Mod
  BY <1>1
<1>3. mods # <<>> => n \in 1..n
  BY <1>1, EmptySeq
<1>4. /\ \A i \in 1..n : Tried(s, k, p, mods[i])
      /\ mods # <<>> /\ r.status = "0" => Passed(s, k, p, r.did, mods[n], mods[n])
  BY Zenon DEF ArgumentDone
<1> HIDE DEF mods, n
<1>5. \A i \in 1..n : Tried(s, l, p, mods[i])
  BY <1>2, <1>4, TriedStays
<1>6. mods # <<>> /\ t.status = "0" => Passed(s, l, p, t.did, mods[n], mods[n])
  BY <1>2, <1>3, <1>4, PassedStays
<1>7. (\A i \in 1..n : Tried(s, l, p, mods[i]))
      /\ (mods # <<>> /\ t.status = "0" => Passed(s, l, p, t.did, mods[n], mods[n]))
  BY <1>5, <1>6
<1> QED BY <1>7, Zenon DEF ArgumentDone, mods, n

\* The modules of an argument that were tried,
LEMMA ModulesStay ==
  ASSUME NEW s \in Situations, NEW k, NEW l, Stable(s, k, l), NEW p \in Inserter,
         NEW r \in Records, Placed(s, p, r), ModulesTried(s, k, p, r)
  PROVE  ModulesTried(s, l, p, r)
<1> SUFFICES ASSUME r.pc \in Working, NEW n \in 1..r.mod - 1
             PROVE  Tried(s, l, p, ModsOf(s, p, r.arg)[n])
  BY DEF ModulesTried
<1>1. ModsOf(s, p, r.arg) \in Seq(Mod) /\ r.mod \in 1..Len(ModsOf(s, p, r.arg))
  BY TargetIs
<1>2. ModsOf(s, p, r.arg)[n] \in Mod
  BY <1>1
<1> QED BY <1>2, TriedStays DEF ModulesTried

\* and those of the list that were passed, stay so, too.
LEMMA ListStays ==
  ASSUME NEW s \in Situations, NEW k, NEW l, Stable(s, k, l), NEW p \in Inserter,
         NEW r \in Records, Placed(s, p, r), ListPassed(s, k, p, r)
  PROVE  ListPassed(s, l, p, r)
<1> SUFFICES ASSUME r.pc \in Working, r.i # 0, NEW j \in 1..r.i - 1
             PROVE  Passed(s, l, p, r.did, r.list[j], TargetOf(s, p, r))
  BY DEF ListPassed
<1>1. r.list \in Seq(Mod) /\ r.i \in 1..Len(r.list)
  BY DEF Placed, Records
<1>2. r.list[j] \in Mod /\ Passed(s, k, p, r.did, r.list[j], TargetOf(s, p, r))
  BY <1>1 DEF ListPassed
<1> QED BY <1>2, PassedStays

\* So what is known of a process stays true while it waits.
LEMMA DoingStays ==
  ASSUME NEW s \in Situations, NEW k, NEW l, Stable(s, k, l), NEW p \in Inserter,
         NEW r \in Records, Doing(s, k, p, r), r.pc = "init" => l[AtOf(s, p, r)] = "coming"
  PROVE  Doing(s, l, p, r)
<1> SUFFICES ASSUME Inserting(s, p)
             PROVE  ArgumentsDone(s, l, p, r) /\ ModulesTried(s, l, p, r) /\ ListPassed(s, l, p, r)
  BY DEF Doing
<1>1. Placed(s, p, r) /\ ArgumentsDone(s, k, p, r) /\ ModulesTried(s, k, p, r) /\ ListPassed(s, k, p, r)
  BY DEF Doing
<1>2. r.did \subseteq r.did
  OBVIOUS
<1>3. ArgumentsDone(s, l, p, r)
  BY <1>1, <1>2, ArgumentStays DEF ArgumentsDone
<1> QED BY <1>1, <1>3, ModulesStay, ListStays

\* The table stays sound, and what is there, when an init function begins or ends.
LEMMA TableStep ==
  ASSUME NEW s, NEW k, TableSound(k), NEW m \in Mod, NEW v, NEW l, l = [k EXCEPT ![m] = v],
         \/ v = "coming" /\ k[m] = "absent" /\ \A d \in Uses[m] : k[d] \in {"live", "builtin"}
         \/ v = "live" /\ k[m] = "absent" /\ \A d \in Uses[m] : k[d] \in {"live", "builtin"}
         \/ v = "live" /\ k[m] = "coming"
         \/ v = "absent" /\ k[m] = "coming" /\ m \in s.fails
  PROVE  TableSound(l) /\ Stable(s, k, l)
<1>1. k \in [Mod -> {"absent", "coming", "live", "builtin"}]
      /\ \A n \in Mod : Here(k, n) => \A d \in Uses[n] : d \in Mod /\ k[d] \in {"live", "builtin"}
  BY UsesType DEF TableSound
<1>2. l \in [Mod -> {"absent", "coming", "live", "builtin"}]
      /\ \A n \in Mod : l[n] = IF n = m THEN v ELSE k[n]
  BY <1>1
<1>3. ASSUME NEW n \in Mod, Here(l, n), NEW d \in Uses[n] PROVE l[d] \in {"live", "builtin"}
  <2>1. d \in Mod
    BY UsesType
  <2>2. n # m => Here(k, n)
    BY <1>2, <1>3 DEF Here
  <2>3. n = m /\ k[m] = "coming" => Here(k, n)
    BY DEF Here
  <2>4. k[d] \in {"live", "builtin"}
    BY <1>1, <1>2, <1>3, <2>2, <2>3 DEF Here
  <2> QED BY <1>2, <2>1, <2>4
<1>4. Stable(s, k, l)
  BY <1>2 DEF Stable, Here
<1> QED BY <1>2, <1>3, <1>4 DEF TableSound

\* The step of a process keeps the invariant when it keeps what is known of that process,
\* changes the table as it should, and the init functions of others go on.
LEMMA StepKeeps ==
  ASSUME IInv, NEW p \in Inserter, NEW r \in Records, Set(p, r),
         TableSound(kernel'), Stable(situation, kernel, kernel'), Doing(situation, kernel', p, r),
         \A q \in Inserter : q # p /\ ins[q].pc = "init" =>
           /\ kernel'[AtOf(situation, q, ins[q])] = "coming"
           /\ r.pc = "init" => AtOf(situation, q, ins[q]) # AtOf(situation, p, r)
  PROVE  IInv'
<1>1. situation' = situation /\ ins' = [ins EXCEPT ![p] = r]
  BY DEF Set
<1>2. /\ situation \in Situations /\ ins \in [Inserter -> Records]
      /\ \A q \in Inserter : Doing(situation, kernel, q, ins[q])
      /\ \A q, o \in Inserter : q # o /\ ins[q].pc = "init" /\ ins[o].pc = "init" =>
           AtOf(situation, q, ins[q]) # AtOf(situation, o, ins[o])
  BY DEF IInv
<1>3. ins' \in [Inserter -> Records] /\ \A q \in Inserter : ins'[q] = IF q = p THEN r ELSE ins[q]
  BY <1>1, <1>2
<1>4. ASSUME NEW q \in Inserter PROVE Doing(situation, kernel', q, ins'[q])
  <2>1. CASE q = p
    BY <1>3, <2>1
  <2>2. CASE q # p
    <3>1. ins[q] \in Records /\ Doing(situation, kernel, q, ins[q])
      BY <1>2
    <3>2. ins[q].pc = "init" => kernel'[AtOf(situation, q, ins[q])] = "coming"
      BY <2>2
    <3>3. Doing(situation, kernel', q, ins[q])
      BY <1>2, <3>1, <3>2, DoingStays
    <3> QED BY <1>3, <2>2, <3>3
  <2> QED BY <2>1, <2>2
<1>5. ASSUME NEW q \in Inserter, NEW o \in Inserter, q # o, ins'[q].pc = "init", ins'[o].pc = "init"
      PROVE  AtOf(situation, q, ins'[q]) # AtOf(situation, o, ins'[o])
  <2>1. CASE q # p /\ o # p
    BY <1>2, <1>3, <1>5, <2>1
  <2>2. CASE q = p
    BY <1>3, <1>5, <2>2
  <2>3. CASE o = p
    BY <1>3, <1>5, <2>3
  <2> QED BY <2>1, <2>2, <2>3
<1> QED BY <1>1, <1>2, <1>3, <1>4, <1>5 DEF IInv

----------------------------------------------------------------------------
(* The end of a module of the list, of a target and of an argument.        *)

\* A process has moved on to a state in which what is known of it is true.
Moved(p, k) == \E r \in Records : Set(p, r) /\ Doing(situation, k, p, r) /\ r.pc # "init"

\* The records for which the operators are used: the process's own, which may just have
\* inserted a module
Carries(r, q) ==
  /\ r \in Records /\ q.did \subseteq r.did
  /\ r.arg = q.arg /\ r.mod = q.mod /\ r.i = q.i /\ r.list = q.list /\ r.pc = q.pc /\ r.status = q.status

\* What holds when the modules of an argument have been tried
Reached(s, k, p, r, err) ==
  LET mods == ModsOf(s, p, r.arg)
  IN  /\ \A j \in 1..r.arg - 1 : ArgumentDone(s, k, p, r, j)
      /\ \A n \in 1..Len(mods) : Tried(s, k, p, mods[n])
      /\ mods # <<>> /\ ~Fails(err) => Passed(s, k, p, r.did, mods[Len(mods)], mods[Len(mods)])

\* A process that looks an argument up is where it should be.
LEMMA LookUpKeeps ==
  ASSUME situation \in Situations, NEW p \in Inserter, NEW k, NEW arg \in 1..Len(situation.args[p]),
         NEW status \in Errors, NEW did \in SUBSET Mod,
         Inserting(situation, p) => \A j \in 1..arg - 1 :
           ArgumentDone(situation, k, p, LookUp(p, arg, status, did), j)
  PROVE  LET r == LookUp(p, arg, status, did)
         IN  r \in Records /\ Doing(situation, k, p, r) /\ r.pc # "init"
<1> DEFINE mods == ModsOf(situation, p, arg)
           pc == IF mods = <<>> THEN "unknown" ELSE IF Has(p, "lookup_only") THEN "print" ELSE "probe"
           r == [arg |-> arg, status |-> status, did |-> did, i |-> 0, list |-> <<>>,
                 ignorecmd |-> {}, err |-> "0", mod |-> 1, pc |-> pc]
<1>1. LookUp(p, arg, status, did) = r
  BY Zenon DEF LookUp, ModsOf
<1>2. Len(situation.args[p]) \in Nat /\ mods \in Seq(Mod) /\ Len(mods) \in Nat
  BY SituationIs
<1>3. mods # <<>> => 1 \in 1..Len(mods)
  BY <1>2, EmptySeq
<1> HIDE DEF mods
<1>4. pc \in {"probe", "unknown", "print"} /\ (pc = "unknown" => mods = <<>>)
      /\ (pc = "print" => ~Inserting(situation, p)) /\ (pc = "probe" => mods # <<>>)
  BY DEF Has, Inserting
<1> HIDE DEF pc
<1>5. r \in Records
  BY <1>2, <1>4 DEF Records, Working, Errors
<1>6. Len(r.list) = 0 /\ r.i = 0 /\ r.arg = arg /\ r.mod = 1 /\ r.pc = pc
  OBVIOUS
<1>7. r.arg = arg /\ ModsOf(situation, p, r.arg) = mods
  BY DEF mods
<1> HIDE DEF r
<1>8. Placed(situation, p, r)
  BY <1>2, <1>3, <1>4, <1>6, <1>7 DEF Placed, Working
<1>9. ASSUME Inserting(situation, p) PROVE ArgumentsDone(situation, k, p, r)
  <2>1. \A j \in 1..Len(situation.args[p]) : j < arg => j \in 1..arg - 1
    BY <1>2
  <2> QED BY <1>1, <1>4, <1>6, <1>9, <2>1 DEF ArgumentsDone
<1>10. ModulesTried(situation, k, p, r) /\ ListPassed(situation, k, p, r)
  BY <1>6 DEF ModulesTried, ListPassed
<1>11. Doing(situation, k, p, r) /\ r.pc # "init"
  BY <1>4, <1>6, <1>8, <1>9, <1>10 DEF Doing
<1> QED BY <1>1, <1>5, <1>11

\* What is done with an argument is done when the status is right.
LEMMA ReachedDone ==
  ASSUME NEW s \in Situations, NEW k, NEW p \in Inserter, NEW r \in Records, NEW err \in Errors,
         r.arg \in 1..Len(s.args[p]), Reached(s, k, p, r, err),
         NEW t, t.did = r.did, t.status = IF Fails(err) THEN err ELSE r.status
  PROVE  \A j \in 1..r.arg : ArgumentDone(s, k, p, t, j)
<1> TAKE j \in 1..r.arg
<1>1. Fails(err) => err # "0"
  BY DEF Fails
<1>2. CASE j = r.arg
  <2> DEFINE mods == ModsOf(s, p, j)
             n == Len(mods)
  <2>1. /\ \A i \in 1..n : Tried(s, k, p, mods[i])
        /\ mods # <<>> /\ ~Fails(err) => Passed(s, k, p, r.did, mods[n], mods[n])
    BY <1>2, Zenon DEF Reached
  <2> HIDE DEF mods, n
  <2>2. t.status = "0" => ~Fails(err)
    BY <1>1
  <2>3. /\ \A i \in 1..n : Tried(s, k, p, mods[i])
        /\ mods # <<>> /\ t.status = "0" => Passed(s, k, p, t.did, mods[n], mods[n])
    BY <2>1, <2>2
  <2> QED BY <2>3, Zenon DEF ArgumentDone, mods, n
<1>3. CASE j # r.arg
  <2>1. j \in 1..r.arg - 1 /\ j \in 1..Len(s.args[p])
    BY <1>3, SituationIs
  <2>2. ArgumentDone(s, k, p, r, j)
    BY <2>1 DEF Reached
  <2>3. Stable(s, k, k) /\ r.did \subseteq t.did /\ (t.status = "0" => r.status = "0")
    BY <1>1 DEF Stable
  <2> QED BY <2>1, <2>2, <2>3, ArgumentStays
<1> QED BY <1>2, <1>3

\* insmod has its result.
LEMMA InsmodKeeps ==
  ASSUME IInv, NEW p \in Inserter, NEW k, NEW r \in Records, NEW err \in Errors, Insmod(p, r, err),
         r.arg \in 1..Len(situation.args[p]),
         Inserting(situation, p) => Reached(situation, k, p, r, err)
  PROVE  Moved(p, k)
<1> DEFINE status == IF Fails(err) THEN err ELSE r.status
           n == Len(situation.args[p])
<1>1. status \in Errors /\ r.did \in SUBSET Mod /\ situation \in Situations /\ n \in Nat
  BY SituationIs DEF Records, IInv
<1>2. CASE r.arg = n
  <2> DEFINE t == [r EXCEPT !.pc = "done", !.status = status]
  <2>1. Set(p, t)
    BY <1>2, Zenon DEF Insmod
  <2>2. t \in Records /\ t.pc = "done" /\ t.arg = r.arg /\ t.did = r.did /\ t.status = status
    BY <1>1 DEF Records, Working
  <2> HIDE DEF t
  <2>3. Placed(situation, p, t)
    BY <1>2, <2>2 DEF Placed, Working
  <2>4. ASSUME Inserting(situation, p) PROVE ArgumentsDone(situation, k, p, t)
    <3>1. \A j \in 1..r.arg : ArgumentDone(situation, k, p, t, j)
      BY <1>1, <2>2, <2>4, ReachedDone
    <3> QED BY <1>2, <3>1 DEF ArgumentsDone
  <2>5. ModulesTried(situation, k, p, t) /\ ListPassed(situation, k, p, t)
    BY <2>2 DEF ModulesTried, ListPassed, Working
  <2>6. Doing(situation, k, p, t) /\ t.pc # "init"
    BY <2>2, <2>3, <2>4, <2>5 DEF Doing
  <2> QED BY <2>1, <2>2, <2>6 DEF Moved
<1>3. CASE r.arg # n
  <2> DEFINE t == LookUp(p, r.arg + 1, status, r.did)
  <2>1. Set(p, t)
    BY <1>3, Zenon DEF Insmod
  <2>2. t.did = r.did /\ t.status = status
    BY DEF LookUp
  <2>3. r.arg + 1 \in 1..n /\ (r.arg + 1) - 1 = r.arg
    BY <1>1, <1>3
  <2> HIDE DEF t, status
  <2>4. ASSUME Inserting(situation, p) PROVE \A j \in 1..r.arg : ArgumentDone(situation, k, p, t, j)
    BY <1>1, <2>2, <2>4, ReachedDone DEF status
  <2>5. t \in Records /\ Doing(situation, k, p, t) /\ t.pc # "init"
    BY <1>1, <2>3, <2>4, LookUpKeeps DEF t
  <2> QED BY <2>1, <2>5 DEF Moved
<1> QED BY <1>2, <1>3

\* kmod_module_probe_insert_module has returned for a target that was tried.
LEMMA ReturnedKeeps ==
  ASSUME IInv, NEW p \in Inserter, ins[p].pc \in Working, NEW k, Stable(situation, kernel, k),
         NEW r, Carries(r, ins[p]), NEW err \in Errors, Returned(p, r, err),
         Inserting(situation, p) =>
           /\ Tried(situation, k, p, Target(p))
           /\ ~Fails(err) => Passed(situation, k, p, r.did, Target(p), Target(p))
  PROVE  Moved(p, k)
<1> DEFINE q == ins[p]
           s == situation
           mods == ModsOf(s, p, r.arg)
<1>1. s \in Situations /\ q \in Records /\ Doing(s, kernel, p, q) /\ Placed(s, p, q)
  BY DEF IInv, Doing
<1>2. r \in Records /\ r.arg = q.arg /\ r.mod = q.mod /\ r.i = q.i /\ r.list = q.list
      /\ r.pc = q.pc /\ r.status = q.status /\ q.did \subseteq r.did
  BY DEF Carries
<1>3. r.arg \in 1..Len(s.args[p]) /\ mods \in Seq(Mod) /\ r.mod \in 1..Len(mods) /\ mods # <<>>
  BY <1>1, <1>2, TargetIs
<1>4. Target(p) = mods[r.mod] /\ Lookup[Alias(p)] = mods
  BY <1>2 DEF Target, Alias, ModsOf
<1>5. ASSUME Inserting(s, p), NEW j \in 1..r.arg - 1 PROVE ArgumentDone(s, k, p, r, j)
  <2>1. j \in 1..Len(s.args[p]) /\ j < q.arg
    BY <1>1, <1>2, <1>3, SituationIs
  <2>2. ArgumentDone(s, kernel, p, q, j)
    BY <1>1, <1>5, <2>1 DEF Doing, ArgumentsDone
  <2> QED BY <1>1, <1>2, <2>1, <2>2, ArgumentStays
<1>6. ASSUME Inserting(s, p) PROVE \A n \in 1..r.mod : Tried(s, k, p, mods[n])
  <2>1. ModulesTried(s, k, p, q)
    BY <1>1, <1>6, ModulesStay DEF Doing
  <2>2. \A n \in 1..r.mod - 1 : Tried(s, k, p, mods[n])
    BY <1>2, <2>1 DEF ModulesTried
  <2>3. \A n \in 1..r.mod : n = r.mod \/ n \in 1..r.mod - 1
    BY <1>3
  <2> QED BY <1>4, <1>6, <2>2, <2>3
<1> HIDE DEF mods
<1>7. CASE r.mod = Len(mods)
  <2>1. Insmod(p, r, err)
    BY <1>4, <1>7, Zenon DEF Returned
  <2>2. ASSUME Inserting(s, p) PROVE Reached(s, k, p, r, err)
    <3>1. \A j \in 1..r.arg - 1 : ArgumentDone(s, k, p, r, j)
      BY <1>5, <2>2
    <3>2. /\ \A n \in 1..Len(mods) : Tried(s, k, p, mods[n])
          /\ mods # <<>> /\ ~Fails(err) => Passed(s, k, p, r.did, mods[Len(mods)], mods[Len(mods)])
      BY <1>4, <1>6, <1>7, <2>2
    <3> QED BY <3>1, <3>2, Zenon DEF Reached, mods
  <2> QED BY <1>2, <1>3, <2>1, <2>2, InsmodKeeps
<1>8. CASE r.mod # Len(mods)
  <2> DEFINE t == Following(r)
  <2>1. Set(p, t)
    BY <1>4, <1>8, Zenon DEF Returned
  <2>2. /\ t \in Records /\ t.pc = "probe" /\ t.mod = r.mod + 1 /\ t.i = 0 /\ t.list = <<>>
        /\ t.arg = r.arg /\ t.did = r.did /\ t.status = r.status
    <3>1. r.mod + 1 \in Nat /\ <<>> \in Seq(Mod) /\ {} \in SUBSET Mod /\ "0" \in Errors /\ "probe" \in Working
      BY <1>2 DEF Records, Working, Errors
    <3>2. t \in Records
      BY <1>2, <3>1 DEF Following, Records
    <3> QED BY <1>2, <3>2 DEF Following, Records
  <2> HIDE DEF t
  <2>3. t.mod \in 1..Len(mods) /\ t.mod - 1 = r.mod /\ Len(t.list) = 0 /\ ModsOf(s, p, t.arg) = mods
    BY <1>3, <1>8, <2>2 DEF mods
  <2>4. r.arg = Len(s.args[p]) \/ r.arg # Len(s.args[p])
    OBVIOUS
  <2>5. Placed(s, p, t)
    BY <1>3, <2>2, <2>3 DEF Placed
  <2>6. ASSUME Inserting(s, p) PROVE ArgumentsDone(s, k, p, t)
    <3>1. ASSUME NEW j \in 1..Len(s.args[p]), j < r.arg PROVE ArgumentDone(s, k, p, t, j)
      <4>1. j \in 1..r.arg - 1
        BY <1>1, <1>3, <3>1, SituationIs
      <4>2. ArgumentDone(s, k, p, r, j) /\ Stable(s, k, k)
        BY <1>5, <2>6, <4>1 DEF Stable
      <4> QED BY <1>1, <2>2, <3>1, <4>2, ArgumentStays
    <3> QED BY <2>2, <3>1 DEF ArgumentsDone
  <2>7. ASSUME Inserting(s, p) PROVE ModulesTried(s, k, p, t)
    BY <1>6, <2>3, <2>7 DEF ModulesTried
  <2>8. ListPassed(s, k, p, t)
    BY <2>2 DEF ListPassed
  <2>9. Doing(s, k, p, t) /\ t.pc # "init"
    BY <2>2, <2>5, <2>6, <2>7, <2>8 DEF Doing
  <2> QED BY <2>1, <2>2, <2>9 DEF Moved
<1> QED BY <1>7, <1>8

----------------------------------------------------------------------------
(* The loop over the probe list.                                           *)

\* The operators of the model are those of the invariant.
LEMMA Translated ==
  ASSUME NEW p \in Inserter
  PROVE  /\ Target(p) = TargetOf(situation, p, ins[p]) /\ At(p) = AtOf(situation, p, ins[p])
         /\ Exempt = Exempted(situation) /\ (Inserts(p) <=> Inserting(situation, p))
         /\ \A m : Present(m) <=> Here(kernel, m)
<1>1. Target(p) = TargetOf(situation, p, ins[p])
  BY DEF Target, Alias, TargetOf, ModsOf
<1>2. At(p) = AtOf(situation, p, ins[p])
  BY <1>1 DEF At, AtOf
<1> QED BY <1>1, <1>2 DEF Exempt, Exempted, Inserts, Inserting, Has, Present, Here

\* What is known of a process in its loop
LEMMA LoopIs ==
  ASSUME IInv, NEW p \in Inserter, ins[p].pc \in Working, ins[p].i # 0
  PROVE  /\ situation \in Situations /\ ins[p] \in Records /\ Placed(situation, p, ins[p])
         /\ Target(p) \in Mod /\ At(p) \in Mod
         /\ ins[p].list \in Seq(Mod) /\ ins[p].i \in 1..Len(ins[p].list) /\ At(p) = ins[p].list[ins[p].i]
         /\ Inserting(situation, p) =>
              /\ FilteredFor(situation, p, Target(p), ins[p].list)
              /\ \A j \in 1..ins[p].i - 1 :
                   Passed(situation, kernel, p, ins[p].did, ins[p].list[j], Target(p))
<1> DEFINE r == ins[p]
<1>1. situation \in Situations /\ r \in Records /\ Doing(situation, kernel, p, r) /\ Placed(situation, p, r)
  BY DEF IInv, Doing
<1>2. Target(p) \in Mod /\ At(p) \in Mod /\ Target(p) = TargetOf(situation, p, r)
  BY <1>1, TargetIs, Translated
<1>3. r.list \in Seq(Mod) /\ r.i \in 1..Len(r.list)
  BY <1>1 DEF Records, Placed
<1>4. At(p) = r.list[r.i]
  BY DEF At
<1>5. Inserting(situation, p) => ListPassed(situation, kernel, p, r)
  BY <1>1 DEF Doing
<1> QED BY <1>1, <1>2, <1>3, <1>4, <1>5 DEF ListPassed

\* Nothing keeps a module out when all of its list can be inserted: what it uses is there.
LEMMA NothingInTheWay ==
  ASSUME IInv, NEW p \in Inserter, ins[p].pc \in Working, ins[p].i # 0, Inserting(situation, p),
         ListedFor(situation, p, Target(p)) \cap (Exempted(situation) \cup situation.nofile) = {}
  PROVE  /\ At(p) \notin Exempted(situation) \cup situation.nofile
         /\ \A d \in Uses[At(p)] : Here(kernel, d)
<1> DEFINE listed == ListedFor(situation, p, Target(p))
           l == ins[p].list
           i == ins[p].i
<1>1. l = ListOf(situation, p, Target(p)) /\ i \in 1..Len(l) /\ At(p) = l[i] /\ Target(p) \in Mod /\ At(p) \in Mod
  <2>1. listed \cap situation.blacklist = {}
    BY DEF Exempted
  <2> QED BY <2>1, LoopIs DEF FilteredFor
<1>2. \A j \in 1..Len(l) : l[j] \in listed
  BY <1>1 DEF ListedFor
<1>3. DepsBefore(l) /\ Len(l) \in Nat
  BY <1>1, ListIs
<1>4. \A j \in 1..i - 1 : Passed(situation, kernel, p, ins[p].did, l[j], Target(p))
  BY LoopIs
<1> HIDE DEF l, i
<1>5. ASSUME NEW d \in Uses[At(p)] PROVE Here(kernel, d)
  <2>1. d \in DepSet(l[i])
    BY <1>1, DepsAreModules
  <2>2. PICK j \in 1..i - 1 : l[j] = d
    BY <1>1, <1>3, <2>1 DEF DepsBefore, Preceded
  <2>3. j \in 1..Len(l)
    BY <1>1, <1>3
  <2>4. l[j] \notin Exempted(situation)
    BY <1>2, <2>3
  <2> QED BY <1>4, <2>2, <2>4 DEF Passed
<1> QED BY <1>1, <1>2, <1>5

\* A list is through: its target is there when nothing keeps it out, and more is true when
\* the target is not exempt.
LEMMA ListThrough ==
  ASSUME NEW s, NEW k, NEW p, NEW did, NEW m \in Mod, NEW list, FilteredFor(s, p, m, list),
         \A j \in 1..Len(list) : Passed(s, k, p, did, list[j], m)
  PROVE  Tried(s, k, p, m) /\ Passed(s, k, p, did, m, m)
<1>1. m \in ListedFor(s, p, m)
  BY ListIs
<1>2. ASSUME m \notin Exempted(s) PROVE Passed(s, k, p, did, m, m) /\ Here(k, m)
  <2>1. PICK j \in 1..Len(list) : list[j] = m
    BY <1>1, <1>2 DEF FilteredFor, Exempted
  <2>2. Passed(s, k, p, did, m, m)
    BY <2>1
  <2> QED BY <1>2, <2>2 DEF Passed
<1>3. m \in Exempted(s) => Passed(s, k, p, did, m, m)
  BY DEF Passed
<1> QED BY <1>1, <1>2, <1>3 DEF Tried

\* finish_module, and what comes after
LEMMA FinishKeeps ==
  ASSUME IInv, NEW p \in Inserter, ins[p].pc \in Working, ins[p].i # 0,
         NEW k, Stable(situation, kernel, k),
         NEW r, Carries(r, ins[p]), NEW err \in Errors, Finish(p, r, err),
         Inserting(situation, p) =>
           /\ err # "blacklisted"
           /\ ~Stops(p, err) => Passed(situation, k, p, r.did, At(p), Target(p))
           /\ Stops(p, err) => Tried(situation, k, p, Target(p))
  PROVE  Moved(p, k)
<1> DEFINE q == ins[p]
           s == situation
           kept == IF err = "EEXIST" /\ ~Stops(p, err) THEN "0" ELSE err
<1>1. /\ s \in Situations /\ q \in Records /\ Placed(s, p, q) /\ Doing(s, kernel, p, q)
      /\ Target(p) \in Mod /\ At(p) \in Mod
      /\ q.list \in Seq(Mod) /\ q.i \in 1..Len(q.list) /\ At(p) = q.list[q.i]
  BY LoopIs DEF IInv
<1>2. /\ r \in Records /\ r.arg = q.arg /\ r.mod = q.mod /\ r.i = q.i /\ r.list = q.list
      /\ r.pc = q.pc /\ r.status = q.status /\ q.did \subseteq r.did
  BY DEF Carries
<1>3. kept \in Errors /\ (Stops(p, err) /\ err # "blacklisted" => Fails(kept))
  BY DEF Errors, Stops, Fails
<1>4. Stops(p, err) \/ q.i = Len(q.list) => Returned(p, r, kept)
  BY Zenon DEF Finish
<1>5. ~(Stops(p, err) \/ q.i = Len(q.list)) => Set(p, [r EXCEPT !.pc = "next", !.i = @ + 1, !.err = kept])
  BY Zenon DEF Finish
<1>6. ASSUME Inserting(s, p), ~Stops(p, err)
      PROVE  /\ FilteredFor(s, p, Target(p), q.list)
             /\ \A j \in 1..q.i : Passed(s, k, p, r.did, q.list[j], Target(p))
  <2>1. FilteredFor(s, p, Target(p), q.list)
    BY <1>6, LoopIs
  <2>2. ASSUME NEW j \in 1..q.i - 1 PROVE Passed(s, k, p, r.did, q.list[j], Target(p))
    <3>1. Passed(s, kernel, p, q.did, q.list[j], Target(p))
      BY <1>6, LoopIs
    <3>2. q.list[j] \in Mod
      BY <1>1
    <3> QED BY <1>2, <3>1, <3>2, PassedStays
  <2>3. \A j \in 1..q.i : j = q.i \/ j \in 1..q.i - 1
    BY <1>1
  <2> QED BY <1>1, <1>6, <2>1, <2>2, <2>3
<1> HIDE DEF kept
<1>7. CASE Stops(p, err)
  <2>1. Returned(p, r, kept)
    BY <1>4, <1>7
  <2> QED BY <1>3, <1>7, <2>1, ReturnedKeeps
<1>8. CASE ~Stops(p, err) /\ q.i = Len(q.list)
  <2>1. Returned(p, r, kept)
    BY <1>4, <1>8
  <2>2. ASSUME Inserting(s, p)
        PROVE  Tried(s, k, p, Target(p)) /\ Passed(s, k, p, r.did, Target(p), Target(p))
    <3>1. FilteredFor(s, p, Target(p), q.list)
          /\ \A j \in 1..Len(q.list) : Passed(s, k, p, r.did, q.list[j], Target(p))
      BY <1>6, <1>8, <2>2
    <3> QED BY <1>1, <3>1, ListThrough
  <2> QED BY <1>3, <2>1, <2>2, ReturnedKeeps
<1>9. CASE ~Stops(p, err) /\ q.i # Len(q.list)
  <2> DEFINE t == [r EXCEPT !.pc = "next", !.i = @ + 1, !.err = kept]
  <2>1. Set(p, t)
    BY <1>5, <1>9
  <2>2. r.i + 1 \in Nat /\ "next" \in Working
    BY <1>2 DEF Records, Working
  <2>3. t \in Records
    BY <1>2, <1>3, <2>2 DEF Records
  <2>4. /\ t.pc = "next" /\ t.i = q.i + 1 /\ t.mod = q.mod /\ t.list = q.list
        /\ t.arg = q.arg /\ t.did = r.did /\ t.status = q.status
    BY <1>2 DEF Records
  <2> HIDE DEF t
  <2>5. t.i \in 1..Len(t.list) /\ t.i # 0 /\ t.i - 1 = q.i
    BY <1>1, <1>9, <2>4
  <2>6. Placed(s, p, t)
    BY <1>1, <2>4, <2>5 DEF Placed
  <2>7. TargetOf(s, p, t) = Target(p)
    BY <2>4, Translated DEF TargetOf
  <2>8. ASSUME Inserting(s, p) PROVE ArgumentsDone(s, k, p, t)
    <3>1. ASSUME NEW j \in 1..Len(s.args[p]), j < q.arg PROVE ArgumentDone(s, k, p, t, j)
      <4>1. ArgumentDone(s, kernel, p, q, j)
        BY <1>1, <2>8, <3>1 DEF Doing, ArgumentsDone
      <4> QED BY <1>1, <1>2, <2>4, <3>1, <4>1, ArgumentStays
    <3> QED BY <2>4, <3>1 DEF ArgumentsDone
  <2>9. ASSUME Inserting(s, p) PROVE ModulesTried(s, k, p, t)
    <3>1. ModulesTried(s, k, p, q)
      BY <1>1, <2>9, ModulesStay DEF Doing
    <3> QED BY <2>4, <3>1 DEF ModulesTried
  <2>10. ASSUME Inserting(s, p) PROVE ListPassed(s, k, p, t)
    BY <1>6, <1>9, <2>4, <2>5, <2>7, <2>10 DEF ListPassed
  <2>11. Doing(s, k, p, t) /\ t.pc # "init"
    BY <2>4, <2>6, <2>8, <2>9, <2>10 DEF Doing
  <2> QED BY <2>1, <2>3, <2>11 DEF Moved
<1> QED BY <1>7, <1>8, <1>9

----------------------------------------------------------------------------
(* The steps.                                                              *)

\* A process that moves on when the table has changed as it should keeps the invariant,
LEMMA MovedKeeps ==
  ASSUME IInv, NEW p \in Inserter, Moved(p, kernel'),
         TableSound(kernel'), Stable(situation, kernel, kernel'),
         \A q \in Inserter : q # p /\ ins[q].pc = "init" => kernel'[AtOf(situation, q, ins[q])] = "coming"
  PROVE  IInv'
<1>1. PICK r \in Records : Set(p, r) /\ Doing(situation, kernel', p, r) /\ r.pc # "init"
  BY DEF Moved
<1> QED BY <1>1, StepKeeps

\* and so does one that leaves the table alone.
LEMMA QuietKeeps ==
  ASSUME IInv, NEW p \in Inserter, Moved(p, kernel), UNCHANGED kernel
  PROVE  IInv'
<1>1. kernel' = kernel /\ Stable(situation, kernel, kernel) /\ TableSound(kernel)
  BY DEF Stable, IInv
<1>2. \A q \in Inserter : ins[q].pc = "init" => kernel[AtOf(situation, q, ins[q])] = "coming"
  BY DEF IInv, Doing
<1>3. Moved(p, kernel')
  BY <1>1
<1> QED BY <1>1, <1>2, <1>3, MovedKeeps

\* The place of a process in its loop changes.
LEMMA PlaceKeeps ==
  ASSUME NEW s \in Situations, NEW k, NEW p \in Inserter, NEW r \in Records, Doing(s, k, p, r),
         r.pc \in Working, NEW pc \in Working,
         pc = "probe" => r.i = 0, pc \in {"next", "insert", "init"} => r.i # 0,
         pc = "init" => k[AtOf(s, p, r)] = "coming"
  PROVE  LET t == [r EXCEPT !.pc = pc]
         IN  t \in Records /\ Doing(s, k, p, t) /\ t.pc = pc /\ AtOf(s, p, t) = AtOf(s, p, r)
<1> DEFINE t == [r EXCEPT !.pc = pc]
<1>1. /\ t \in Records /\ t.pc = pc /\ t.arg = r.arg /\ t.mod = r.mod /\ t.i = r.i /\ t.list = r.list
      /\ t.did = r.did /\ t.status = r.status /\ t.pc \in Working
  BY DEF Records
<1> HIDE DEF t
<1>2. TargetOf(s, p, t) = TargetOf(s, p, r) /\ AtOf(s, p, t) = AtOf(s, p, r)
  BY <1>1 DEF TargetOf, AtOf
<1>3. r.i \in Nat /\ r.pc # "done" /\ t.pc # "done" /\ t.pc # "unknown" /\ t.pc # "print"
  BY <1>1 DEF Records, Working
<1>4. Placed(s, p, r)
  BY DEF Doing
<1>5. t.i \in 0..Len(t.list)
  BY <1>1, <1>4 DEF Placed
<1>6. Placed(s, p, t)
  BY <1>1, <1>3, <1>4, <1>5 DEF Placed
<1>7. ASSUME Inserting(s, p) PROVE ArgumentsDone(s, k, p, t)
  <2>1. ASSUME NEW j \in 1..Len(s.args[p]), j < r.arg PROVE ArgumentDone(s, k, p, t, j)
    <3>1. ArgumentDone(s, k, p, r, j) /\ Stable(s, k, k)
      BY <1>7, <2>1 DEF Doing, ArgumentsDone, Stable
    <3> QED BY <1>1, <2>1, <3>1, ArgumentStays
  <2> QED BY <1>1, <1>3, <2>1 DEF ArgumentsDone
<1>8. ASSUME Inserting(s, p) PROVE ModulesTried(s, k, p, t)
  BY <1>1, <1>8 DEF Doing, ModulesTried
<1>9. ASSUME Inserting(s, p) PROVE ListPassed(s, k, p, t)
  BY <1>1, <1>2, <1>9 DEF Doing, ListPassed
<1>10. Doing(s, k, p, t)
  BY <1>1, <1>2, <1>6, <1>7, <1>8, <1>9 DEF Doing
<1> QED BY <1>1, <1>2, <1>10 DEF t

\* The same of a process of the model, when the table does not change
LEMMA PlaceMoved ==
  ASSUME IInv, NEW p \in Inserter, ins[p].pc \in Working, NEW pc \in Working \ {"init"},
         pc = "probe" => ins[p].i = 0, pc \in {"next", "insert"} => ins[p].i # 0,
         Set(p, [ins[p] EXCEPT !.pc = pc])
  PROVE  Moved(p, kernel)
<1> DEFINE t == [ins[p] EXCEPT !.pc = pc]
<1>1. situation \in Situations /\ ins[p] \in Records /\ Doing(situation, kernel, p, ins[p])
  BY DEF IInv
<1>2. t \in Records /\ Doing(situation, kernel, p, t) /\ t.pc = pc
  BY <1>1, PlaceKeeps
<1> QED BY <1>2 DEF Moved

\* The record of the process is one it may go on with.
LEMMA CarriesOn ==
  ASSUME IInv, NEW p \in Inserter
  PROVE  Carries(ins[p], ins[p]) /\ Stable(situation, kernel, kernel)
BY DEF Carries, Stable, IInv

\* The filtered list of a process
LEMMA FilteredIs ==
  ASSUME IInv, NEW p \in Inserter, Target(p) \in Mod
  PROVE  FilteredFor(situation, p, Target(p), Filtered(p)) /\ Probe(p).ignorecmd \in SUBSET Mod
<1> DEFINE m == Target(p)
           l == ListOf(situation, p, m)
<1>1. PICK ignorecmd \in BOOLEAN : Probe(p) = ProbeListOf(m, ignorecmd)
  BY DEF Probe, ProbeFor, FullLists, BareLists
<1>2. Probe(p).ignorecmd \in SUBSET Mod
  <2>1. ListSound(m, ignorecmd)
    BY ListsAreSound
  <2>2. ProbeListOf(m, ignorecmd) \in ProbeState
    BY <2>1 DEF ListSound
  <2> QED BY <1>1, <2>2 DEF ProbeState
<1>3. Probe(p).list = l
  BY DEF Probe, ProbeFor, ListOf, Has
<1>4. l \in Seq(Mod) /\ ListedFor(situation, p, m) = {l[i] : i \in 1..Len(l)}
  BY ListIs DEF ListedFor
<1> HIDE DEF l, m
<1>5. CASE Has(p, "blacklist_all")
  <2>1. Filtered(p) = ApplyFilter(l)
    BY <1>3, <1>5 DEF Filtered
  <2>2. /\ Filtered(p) \in Seq(Mod)
        /\ \A d \in ListedFor(situation, p, m) : d \notin situation.blacklist =>
             \E i \in 1..Len(Filtered(p)) : Filtered(p)[i] = d
        /\ ListedFor(situation, p, m) \cap situation.blacklist = {} => Filtered(p) = l
    BY <1>4, <2>1, FilterIs
  <2> QED BY <1>2, <2>2 DEF FilteredFor, l, m
<1>6. CASE ~Has(p, "blacklist_all")
  <2>1. Filtered(p) = l
    BY <1>3, <1>6 DEF Filtered
  <2>2. \A d \in ListedFor(situation, p, m) : \E i \in 1..Len(l) : l[i] = d
    BY <1>4
  <2> QED BY <1>2, <1>4, <2>1, <2>2 DEF FilteredFor, l, m
<1> QED BY <1>5, <1>6

\* The target's state has been read.
LEMMA ProbedMoves ==
  ASSUME IInv, NEW p \in Inserter, ins[p].pc \in {"probe", "stat"}, ins[p].i = 0, NEW state, Probed(p, state),
         InKernel(state) => Here(kernel, At(p))
  PROVE  Moved(p, kernel)
<1> DEFINE q == ins[p]
           s == situation
           m == Target(p)
<1>1. /\ s \in Situations /\ q \in Records /\ Doing(s, kernel, p, q) /\ Placed(s, p, q)
      /\ q.pc \in Working /\ At(p) = m
  BY DEF IInv, Doing, Working, At
<1>2. m \in Mod /\ m = TargetOf(s, p, q)
  BY <1>1, TargetIs, Translated
<1>3. FilteredFor(s, p, m, Filtered(p)) /\ Probe(p).ignorecmd \in SUBSET Mod
  BY <1>2, FilteredIs
<1>4. m \in ListedFor(s, p, m) /\ ListOf(s, p, m) \in Seq(Mod) /\ Filtered(p) \in Seq(Mod)
  BY <1>2, <1>3, ListIs DEF FilteredFor
<1>5. CASE InKernel(state)
  <2> DEFINE err == IF Has(p, "fail_on_loaded") THEN "EEXIST" ELSE "0"
  <2>1. Returned(p, q, err)
    BY <1>5 DEF Probed
  <2>2. Tried(s, kernel, p, m)
    BY <1>1, <1>5 DEF Tried
  <2>3. ~Fails(err) => Passed(s, kernel, p, q.did, m, m)
    BY <1>1, <1>5 DEF Fails, Has, Passed
  <2>4. err \in Errors
    BY DEF Errors
  <2> HIDE DEF err
  <2> QED BY <1>1, <2>1, <2>2, <2>3, <2>4, CarriesOn, ReturnedKeeps
<1>6. CASE ~InKernel(state) /\ (Blacklisted(p) \/ Filtered(p) = <<>>)
  <2>1. Returned(p, q, "blacklisted") /\ "blacklisted" \in Errors
    BY <1>6 DEF Probed, Errors
  <2>2. m \in s.blacklist
    <3>1. Blacklisted(p) => m \in s.blacklist
      BY DEF Blacklisted
    <3>2. m \notin s.blacklist => \E i \in 1..Len(Filtered(p)) : Filtered(p)[i] = m
      BY <1>3, <1>4 DEF FilteredFor
    <3>3. Filtered(p) = <<>> => Len(Filtered(p)) = 0
      OBVIOUS
    <3> QED BY <1>6, <3>1, <3>2, <3>3
  <2>3. Tried(s, kernel, p, m) /\ Passed(s, kernel, p, q.did, m, m)
    BY <1>4, <2>2 DEF Tried, Passed, Exempted
  <2> QED BY <1>1, <2>1, <2>3, CarriesOn, ReturnedKeeps
<1>7. CASE ~InKernel(state) /\ ~(Blacklisted(p) \/ Filtered(p) = <<>>)
  <2> DEFINE l == Filtered(p)
             g == Probe(p).ignorecmd
             t == [q EXCEPT !.pc = "next", !.i = 1, !.list = l, !.ignorecmd = g]
  <2>1. Set(p, t)
    BY <1>7 DEF Probed
  <2>2. l \in Seq(Mod) /\ l # <<>> /\ g \in SUBSET Mod /\ "next" \in Working
    BY <1>3, <1>4, <1>7 DEF Working
  <2>3. 1 \in 1..Len(l)
    BY <2>2, EmptySeq
  <2> HIDE DEF l, g
  <2>4. t \in Records
    BY <1>1, <2>2 DEF Records
  <2>5. /\ t.pc = "next" /\ t.i = 1 /\ t.mod = q.mod /\ t.list = l
        /\ t.arg = q.arg /\ t.did = q.did /\ t.status = q.status
    BY <1>1 DEF Records
  <2> HIDE DEF t
  <2>6. Placed(s, p, t)
    BY <1>1, <2>3, <2>5 DEF Placed
  <2>7. TargetOf(s, p, t) = m
    BY <1>2, <2>5 DEF TargetOf
  <2>8. ASSUME Inserting(s, p) PROVE ArgumentsDone(s, kernel, p, t)
    <3>1. ASSUME NEW j \in 1..Len(s.args[p]), j < q.arg PROVE ArgumentDone(s, kernel, p, t, j)
      <4>1. ArgumentDone(s, kernel, p, q, j) /\ Stable(s, kernel, kernel)
        BY <1>1, <2>8, <3>1 DEF Doing, ArgumentsDone, Stable
      <4> QED BY <1>1, <2>5, <3>1, <4>1, ArgumentStays
    <3> QED BY <2>5, <3>1 DEF ArgumentsDone
  <2>9. ASSUME Inserting(s, p) PROVE ModulesTried(s, kernel, p, t)
    BY <1>1, <2>5, <2>9 DEF Doing, ModulesTried
  <2>10. ListPassed(s, kernel, p, t)
    BY <1>3, <2>5, <2>7 DEF ListPassed, l
  <2>11. Doing(s, kernel, p, t)
    BY <2>5, <2>6, <2>8, <2>9, <2>10 DEF Doing
  <2> QED BY <2>1, <2>4, <2>5, <2>11 DEF Moved
<1> QED BY <1>5, <1>6, <1>7

\* A module of the list is there already, or is to be inserted.
LEMMA LookedMoves ==
  ASSUME IInv, NEW p \in Inserter, ins[p].pc \in {"next", "stat"}, ins[p].i # 0, NEW state, Looked(p, state),
         InKernel(state) => Here(kernel, At(p))
  PROVE  Moved(p, kernel)
<1> DEFINE s == situation
<1>1. ins[p].pc \in Working /\ ins[p] \in Records
  BY DEF IInv, Working
<1>2. CASE InKernel(state)
  <2>1. Finish(p, ins[p], "EEXIST") /\ "EEXIST" \in Errors
    BY <1>2 DEF Looked, Errors
  <2>2. ~Stops(p, "EEXIST") => Passed(s, kernel, p, ins[p].did, At(p), Target(p))
    BY <1>2 DEF Stops, Passed, Has
  <2>3. Stops(p, "EEXIST") => Tried(s, kernel, p, Target(p))
    BY <1>2 DEF Stops, Tried
  <2> QED BY <1>1, <2>1, <2>2, <2>3, CarriesOn, FinishKeeps
<1>3. CASE ~InKernel(state) /\ Has(p, "dry_run")
  <2>1. Finish(p, ins[p], ins[p].err) /\ ins[p].err \in Errors
    BY <1>1, <1>3 DEF Looked, Records
  <2>2. ~Inserting(s, p)
    BY <1>3 DEF Has, Inserting
  <2> QED BY <1>1, <2>1, <2>2, CarriesOn, FinishKeeps
<1>4. CASE ~InKernel(state) /\ ~Has(p, "dry_run")
  <2>1. Set(p, [ins[p] EXCEPT !.pc = "insert"])
    BY <1>4 DEF Looked
  <2> QED BY <1>1, <2>1, PlaceMoved DEF Working
<1> QED BY <1>2, <1>3, <1>4

\* The state as the caller has read it
LEMMA SeenMoves ==
  ASSUME IInv, NEW p \in Inserter, ins[p].pc \in {"probe", "next", "stat"}, NEW state, Seen(p, state),
         InKernel(state) => Here(kernel, At(p))
  PROVE  Moved(p, kernel)
<1>1. Placed(situation, p, ins[p])
  BY DEF IInv, Doing
<1>2. CASE ins[p].i = 0
  <2>1. Probed(p, state) /\ ins[p].pc \in {"probe", "stat"}
    BY <1>1, <1>2 DEF Seen, Placed
  <2> QED BY <1>2, <2>1, ProbedMoves
<1>3. CASE ins[p].i # 0
  <2>1. Looked(p, state) /\ ins[p].pc \in {"next", "stat"}
    BY <1>1, <1>3 DEF Seen, Placed
  <2> QED BY <1>3, <2>1, LookedMoves
<1> QED BY <1>2, <1>3

\* The files of /sys/module are read, or not.
LEMMA Looks ==
  ASSUME IInv, NEW p \in Inserter, ReadInitstate(p) \/ StatModuleDir(p) \/ IgnoreLoaded(p)
  PROVE  IInv'
<1>1. UNCHANGED kernel /\ ins[p].pc \in {"probe", "next", "stat"} /\ ins[p].pc \in Working
  BY DEF ReadInitstate, StatModuleDir, IgnoreLoaded, Working
<1>2. At(p) \in Mod /\ kernel[At(p)] \in {"absent", "coming", "live", "builtin"}
  <2>1. situation \in Situations /\ ins[p] \in Records /\ Placed(situation, p, ins[p]) /\ TableSound(kernel)
    BY DEF IInv, Doing
  <2>2. At(p) \in Mod
    BY <1>1, <2>1, TargetIs, Translated
  <2> QED BY <2>1, <2>2 DEF TableSound
<1>3. CASE ReadInitstate(p)
  <2>1. CASE InitstateFile(At(p)) = "none"
    <3>1. Set(p, [ins[p] EXCEPT !.pc = "stat"])
      BY <1>3, <2>1 DEF ReadInitstate
    <3>2. Moved(p, kernel)
      BY <1>1, <3>1, PlaceMoved DEF Working
    <3> QED BY <1>1, <3>2, QuietKeeps
  <2>2. CASE InitstateFile(At(p)) # "none"
    <3>1. Seen(p, InitstateFile(At(p)))
      BY <1>3, <2>2 DEF ReadInitstate
    <3>2. InKernel(InitstateFile(At(p))) => Here(kernel, At(p))
      BY <2>2 DEF InitstateFile, InKernel, Here
    <3>3. Moved(p, kernel)
      BY <1>1, <3>1, <3>2, SeenMoves
    <3> QED BY <1>1, <3>3, QuietKeeps
  <2> QED BY <2>1, <2>2
<1>4. CASE StatModuleDir(p)
  <2> DEFINE state == IF ModuleDir(At(p)) THEN "builtin" ELSE "absent"
  <2>1. Seen(p, state)
    BY <1>4 DEF StatModuleDir
  <2>2. InKernel(state) => Here(kernel, At(p))
    BY <1>2 DEF ModuleDir, InKernel, Here
  <2> HIDE DEF state
  <2>3. Moved(p, kernel)
    BY <1>1, <2>1, <2>2, SeenMoves
  <2> QED BY <1>1, <2>3, QuietKeeps
<1>5. CASE IgnoreLoaded(p)
  <2>1. Seen(p, "absent") /\ ~InKernel("absent")
    BY <1>5 DEF IgnoreLoaded, InKernel
  <2>2. Moved(p, kernel)
    BY <1>1, <2>1, SeenMoves
  <2> QED BY <1>1, <2>2, QuietKeeps
<1> QED BY <1>3, <1>4, <1>5

\* The names of an alias are printed, or there are none.
LEMMA NamesKeep ==
  ASSUME IInv, NEW p \in Inserter, PrintNames(p) \/ UnknownAlias(p)
  PROVE  IInv'
<1> DEFINE s == situation
           q == ins[p]
<1>1. s \in Situations /\ q \in Records /\ Doing(s, kernel, p, q) /\ Placed(s, p, q)
  BY DEF IInv, Doing
<1>2. q.arg \in 1..Len(s.args[p])
  BY <1>1 DEF Placed
<1>3. CASE PrintNames(p)
  <2>1. Insmod(p, q, "0") /\ "0" \in Errors /\ UNCHANGED kernel /\ ~Inserting(s, p)
    BY <1>1, <1>3 DEF PrintNames, Errors, Placed
  <2> QED BY <1>1, <1>2, <2>1, InsmodKeeps, QuietKeeps
<1>4. CASE UnknownAlias(p)
  <2>1. PICK err \in Errors : Insmod(p, q, err)
    <3>1. "0" \in Errors /\ "ENOENT" \in Errors
      BY DEF Errors
    <3> QED BY <1>4, <3>1 DEF UnknownAlias
  <2>2. UNCHANGED kernel /\ ModsOf(s, p, q.arg) = <<>> /\ q.pc = "unknown"
    BY <1>1, <1>4 DEF UnknownAlias, Placed
  <2>3. ASSUME Inserting(s, p), NEW j \in 1..q.arg - 1 PROVE ArgumentDone(s, kernel, p, q, j)
    <3>1. j \in 1..Len(s.args[p]) /\ j < q.arg
      BY <1>1, <1>2, SituationIs
    <3> QED BY <1>1, <2>3, <3>1 DEF Doing, ArgumentsDone
  <2>4. Inserting(s, p) => Reached(s, kernel, p, q, err)
    <3>1. Len(ModsOf(s, p, q.arg)) = 0
      BY <2>2
    <3> QED BY <2>2, <2>3, <3>1 DEF Reached
  <2> QED BY <1>1, <1>2, <2>1, <2>2, <2>4, InsmodKeeps, QuietKeeps
<1> QED BY <1>3, <1>4

\* A process that has a module to insert
LEMMA InsertsIs ==
  ASSUME IInv, NEW p \in Inserter, ins[p].pc \in {"insert", "init"}
  PROVE  /\ ins[p].pc \in Working /\ ins[p].i # 0 /\ TableSound(kernel)
         /\ situation \in Situations /\ ins[p] \in Records /\ Doing(situation, kernel, p, ins[p])
         /\ Target(p) \in Mod /\ At(p) \in Mod
         /\ At(p) = AtOf(situation, p, ins[p])
         /\ kernel[At(p)] \in {"absent", "coming", "live", "builtin"}
<1>1. /\ situation \in Situations /\ ins[p] \in Records /\ Doing(situation, kernel, p, ins[p])
      /\ TableSound(kernel) /\ ins[p].pc \in Working /\ Placed(situation, p, ins[p])
  BY DEF IInv, Working, Doing
<1>2. ins[p].i # 0
  BY <1>1 DEF Placed
<1>3. At(p) \in Mod /\ Target(p) \in Mod /\ At(p) = AtOf(situation, p, ins[p])
  BY <1>1, TargetIs, Translated
<1> QED BY <1>1, <1>2, <1>3 DEF TableSound

\* init_module is refused.
LEMMA RefusedKeeps ==
  ASSUME IInv, NEW p \in Inserter, InsmodRefused(p)
  PROVE  IInv'
<1> DEFINE s == situation
           m == At(p)
           err == InsmodError(m)
<1>1. /\ ins[p].pc = "insert" /\ err # "0" /\ Finish(p, ins[p], err) /\ UNCHANGED kernel
  BY DEF InsmodRefused, Insmods
<1>2. ins[p].pc \in Working /\ ins[p].i # 0 /\ kernel[m] \in {"absent", "coming", "live", "builtin"}
  BY <1>1, InsertsIs
<1>3. err \in {"ENOSYS", "EEXIST", "ENOENT"} /\ err \in Errors
  BY <1>1 DEF InsmodError, InitModuleError, Errors
<1>4. err = "EEXIST" => Here(kernel, m)
  BY <1>2 DEF InsmodError, InitModuleError, Here
<1>5. err = "ENOSYS" => m \in s.nofile
  BY DEF InsmodError, InitModuleError
<1>6. err = "ENOENT" => \E d \in Uses[m] : ~Here(kernel, d)
  BY DEF InsmodError, InitModuleError, Here
<1> HIDE DEF err, m
<1>7. ~Stops(p, err) => Passed(s, kernel, p, ins[p].did, m, Target(p))
  BY <1>3, <1>4 DEF Stops, Passed, Has, m
<1>8. ASSUME Inserting(s, p), Stops(p, err) PROVE Tried(s, kernel, p, Target(p))
  <2>1. CASE err = "EEXIST"
    BY <1>4, <1>8, <2>1 DEF Stops, Tried, m
  <2>2. CASE err # "EEXIST"
    <3>1. ~(ListedFor(s, p, Target(p)) \cap (Exempted(s) \cup s.nofile) = {})
      BY <1>2, <1>3, <1>5, <1>6, <1>8, <2>2, NothingInTheWay DEF m
    <3> QED BY <3>1 DEF Tried
  <2> QED BY <2>1, <2>2
<1>9. Moved(p, kernel)
  BY <1>1, <1>2, <1>3, <1>7, <1>8, CarriesOn, FinishKeeps DEF m
<1> QED BY <1>1, <1>9, QuietKeeps

\* A module becomes coming or live: the init functions of other modules go on.
LEMMA OthersGoOn ==
  ASSUME IInv, NEW p \in Inserter, NEW m \in Mod, NEW v, kernel' = [kernel EXCEPT ![m] = v],
         kernel[m] = "coming" => ins[p].pc = "init" /\ AtOf(situation, p, ins[p]) = m
  PROVE  \A q \in Inserter : q # p /\ ins[q].pc = "init" =>
           kernel'[AtOf(situation, q, ins[q])] = "coming" /\ AtOf(situation, q, ins[q]) # m
<1> SUFFICES ASSUME NEW q \in Inserter, q # p, ins[q].pc = "init"
             PROVE  kernel'[AtOf(situation, q, ins[q])] = "coming" /\ AtOf(situation, q, ins[q]) # m
  OBVIOUS
<1>1. situation \in Situations /\ ins[q] \in Records /\ Doing(situation, kernel, q, ins[q])
      /\ Placed(situation, q, ins[q]) /\ ins[q].pc \in Working
  BY DEF IInv, Doing, Working
<1> DEFINE n == AtOf(situation, q, ins[q])
<1>2. n \in Mod /\ kernel[n] = "coming"
  BY <1>1, TargetIs DEF Doing
<1>3. n # m
  BY <1>2 DEF IInv
<1>4. kernel \in [Mod -> {"absent", "coming", "live", "builtin"}]
  BY DEF IInv, TableSound
<1> HIDE DEF n
<1>5. kernel'[n] = "coming"
  BY <1>2, <1>3, <1>4
<1> QED BY <1>3, <1>5 DEF n

\* An init function starts: what the module uses is there.
LEMMA StartsKeeps ==
  ASSUME IInv, NEW p \in Inserter, InsmodStarts(p)
  PROVE  IInv'
<1> DEFINE s == situation
           m == At(p)
           t == [ins[p] EXCEPT !.pc = "init"]
<1>1. ins[p].pc = "insert" /\ ~InitModuleWaits(m) /\ InsmodError(m) = "0" /\ Set(p, t)
      /\ kernel' = [kernel EXCEPT ![m] = "coming"]
  BY DEF InsmodStarts, Insmods, InitModuleBegin
<1>2. /\ ins[p].pc \in Working /\ ins[p].i # 0 /\ TableSound(kernel) /\ m \in Mod
      /\ s \in Situations /\ ins[p] \in Records /\ Doing(s, kernel, p, ins[p]) /\ m = AtOf(s, p, ins[p])
  BY <1>1, InsertsIs
<1>3. kernel[m] = "absent" /\ \A d \in Uses[m] : kernel[d] \notin {"absent", "going", "coming"}
  BY <1>1 DEF InsmodError, InitModuleError, InitModuleWaits
<1>4. \A d \in Uses[m] : kernel[d] \in {"live", "builtin"}
  <2>1. \A d \in Uses[m] : d \in Mod
    BY <1>2, UsesType
  <2> QED BY <1>2, <1>3, <2>1 DEF TableSound
<1> HIDE DEF m
<1>5. TableSound(kernel') /\ Stable(s, kernel, kernel')
  BY <1>1, <1>2, <1>3, <1>4, TableStep
<1>6. kernel'[m] = "coming"
  BY <1>1, <1>2 DEF TableSound
<1>7. Doing(s, kernel', p, ins[p])
  BY <1>1, <1>2, <1>5, DoingStays
<1>8. t \in Records /\ Doing(s, kernel', p, t) /\ t.pc = "init" /\ AtOf(s, p, t) = AtOf(s, p, ins[p])
  <2>1. "init" \in Working
    BY DEF Working
  <2> QED BY <1>2, <1>6, <1>7, <2>1, PlaceKeeps
<1> HIDE DEF t
<1>9. \A q \in Inserter : q # p /\ ins[q].pc = "init" =>
        kernel'[AtOf(s, q, ins[q])] = "coming" /\ AtOf(s, q, ins[q]) # AtOf(s, p, t)
  <2>1. kernel[m] # "coming"
    BY <1>3
  <2>2. \A q \in Inserter : q # p /\ ins[q].pc = "init" =>
          kernel'[AtOf(situation, q, ins[q])] = "coming" /\ AtOf(situation, q, ins[q]) # m
    BY <1>1, <1>2, <2>1, OthersGoOn
  <2> QED BY <1>2, <1>8, <2>2
<1> QED BY <1>1, <1>5, <1>8, <1>9, StepKeeps

\* An init function returns.
LEMMA EndsKeeps ==
  ASSUME IInv, NEW p \in Inserter, NEW ok \in BOOLEAN, InsmodEnds(p, ok)
  PROVE  IInv'
<1> DEFINE s == situation
           m == At(p)
           did == IF ok THEN ins[p].did \cup {m} ELSE ins[p].did
           r == [ins[p] EXCEPT !.did = did]
           err == IF ok THEN "0" ELSE "EIO"
           v == IF ok THEN "live" ELSE "absent"
<1>1. /\ ins[p].pc = "init" /\ (ok \/ m \in s.fails) /\ Finish(p, r, err)
      /\ kernel' = [kernel EXCEPT ![m] = v]
  BY DEF InsmodEnds, InitModuleEnd
<1>2. /\ ins[p].pc \in Working /\ ins[p].i # 0 /\ TableSound(kernel) /\ m \in Mod
      /\ s \in Situations /\ ins[p] \in Records /\ Doing(s, kernel, p, ins[p]) /\ m = AtOf(s, p, ins[p])
  BY <1>1, InsertsIs
<1>3. kernel[m] = "coming"
  BY <1>1, <1>2 DEF Doing
<1>4. did \in SUBSET Mod /\ ins[p].did \subseteq did /\ (ok => m \in did)
  BY <1>2 DEF Records
<1>5. err \in Errors /\ (ok => err = "0" /\ v = "live") /\ (~ok => err = "EIO" /\ v = "absent")
  BY DEF Errors
<1> HIDE DEF m, did, err, v
<1>6. Carries(r, ins[p]) /\ r.did = did
  BY <1>2, <1>4 DEF Carries, Records
<1> HIDE DEF r
<1>7. TableSound(kernel') /\ Stable(s, kernel, kernel')
  <2>1. v = "live" \/ (v = "absent" /\ m \in s.fails)
    BY <1>1, <1>5
  <2> QED BY <1>1, <1>2, <1>3, <2>1, TableStep
<1>8. kernel'[m] = v
  BY <1>1, <1>2 DEF TableSound
<1>9. ~Stops(p, err) => Passed(s, kernel', p, r.did, m, Target(p))
  <2>1. ~Stops(p, err) => ok
    BY <1>5 DEF Stops
  <2> QED BY <1>4, <1>5, <1>6, <1>8, <2>1 DEF Passed, Here
<1>10. ASSUME Inserting(s, p), Stops(p, err) PROVE Tried(s, kernel', p, Target(p))
  <2>1. m \in Exempted(s)
    BY <1>1, <1>5, <1>10 DEF Stops, Exempted
  <2>2. ~(ListedFor(s, p, Target(p)) \cap (Exempted(s) \cup s.nofile) = {})
    BY <1>2, <1>10, <2>1, NothingInTheWay DEF m
  <2> QED BY <2>2 DEF Tried
<1>11. err # "blacklisted"
  BY <1>5
<1>12. Moved(p, kernel')
  BY <1>1, <1>2, <1>5, <1>6, <1>7, <1>9, <1>10, <1>11, FinishKeeps DEF m
<1>13. \A q \in Inserter : q # p /\ ins[q].pc = "init" => kernel'[AtOf(s, q, ins[q])] = "coming"
  BY <1>1, <1>2, <1>3, OthersGoOn
<1> QED BY <1>7, <1>12, <1>13, MovedKeeps

\* An install command has run: its module is exempt, and may have been inserted.
LEMMA CommandKeeps ==
  ASSUME IInv, NEW p \in Inserter, NEW ending \in situation.endings, RunCommand(p, ending)
  PROVE  IInv'
<1> DEFINE s == situation
           m == At(p)
<1>1. /\ ins[p].pc = "insert" /\ m \in s.commands /\ Finish(p, ins[p], ending)
      /\ ending = "0" => InitModuleError(m) # "ENOENT" /\ ~InitModuleWaits(m)
  BY DEF RunCommand, RunsCommand
<1>2. /\ ins[p].pc \in Working /\ ins[p].i # 0 /\ TableSound(kernel) /\ m \in Mod
      /\ s \in Situations /\ ins[p] \in Records /\ Doing(s, kernel, p, ins[p]) /\ m = AtOf(s, p, ins[p])
  BY <1>1, InsertsIs
<1>3. ending \in {"0", "1", "EEXIST", "signal"}
  BY <1>2, SituationIs
<1>4. ending \in Errors /\ ending # "blacklisted"
  BY <1>3 DEF Errors
<1>5. /\ TableSound(kernel') /\ Stable(s, kernel, kernel')
      /\ \A q \in Inserter : q # p /\ ins[q].pc = "init" => kernel'[AtOf(s, q, ins[q])] = "coming"
  <2>1. CASE ending = "0" /\ kernel[m] = "absent"
    <3>1. kernel' = [kernel EXCEPT ![m] = "live"]
      BY <2>1 DEF RunCommand, InitModuleEnd
    <3>2. \A d \in Uses[m] : kernel[d] \notin {"absent", "going", "coming"}
      BY <1>1, <2>1 DEF InitModuleError, InitModuleWaits
    <3>3. \A d \in Uses[m] : kernel[d] \in {"live", "builtin"}
      <4>1. \A d \in Uses[m] : d \in Mod
        BY <1>2, UsesType
      <4> QED BY <1>2, <3>2, <4>1 DEF TableSound
    <3> HIDE DEF m
    <3>4. TableSound(kernel') /\ Stable(s, kernel, kernel')
      BY <1>2, <2>1, <3>1, <3>3, TableStep
    <3> QED BY <1>2, <2>1, <3>1, <3>4, OthersGoOn
  <2>2. CASE ~(ending = "0" /\ kernel[m] = "absent")
    <3>1. kernel' = kernel
      BY <2>2 DEF RunCommand
    <3> QED BY <1>2, <3>1 DEF Stable, IInv, Doing
  <2> QED BY <2>1, <2>2
<1>6. m \in Exempted(s)
  BY <1>1 DEF Exempted
<1>7. Passed(s, kernel', p, ins[p].did, m, Target(p))
  BY <1>6 DEF Passed
<1>8. ASSUME Inserting(s, p) PROVE Tried(s, kernel', p, Target(p))
  <2>1. ~(ListedFor(s, p, Target(p)) \cap (Exempted(s) \cup s.nofile) = {})
    BY <1>2, <1>6, <1>8, NothingInTheWay
  <2> QED BY <2>1 DEF Tried
<1> HIDE DEF m
<1>9. Moved(p, kernel')
  BY <1>1, <1>2, <1>4, <1>5, <1>7, <1>8, CarriesOn, FinishKeeps DEF m
<1> QED BY <1>5, <1>9, MovedKeeps

----------------------------------------------------------------------------
(* The theorems.                                                           *)

\* The invariant holds at first,
LEMMA InitKeeps == ASSUME Init PROVE IInv
<1>1. /\ situation \in Situations /\ ins = [p \in Inserter |-> LookUp(p, 1, "0", {})]
      /\ kernel = [m \in Mod |-> IF m \in Builtin THEN "builtin"
                                 ELSE IF m \in LoadedAtFirst THEN "live" ELSE "absent"]
  BY DEF Init, InsertInit, KernelInit
<1>2. TableSound(kernel)
  <2>1. kernel \in [Mod -> {"absent", "coming", "live", "builtin"}]
    BY <1>1
  <2>2. ASSUME NEW m \in Mod, Here(kernel, m), NEW d \in Uses[m] PROVE kernel[d] \in {"live", "builtin"}
    <3>1. m \in Builtin \cup LoadedAtFirst
      BY <1>1, <2>2 DEF Here
    <3>2. d \in Builtin \cup LoadedAtFirst /\ d \in Mod
      BY <3>1, LoadedType
    <3> QED BY <1>1, <3>2
  <2> QED BY <2>1, <2>2 DEF TableSound
<1>3. \A p \in Inserter :
        ins[p] \in Records /\ Doing(situation, kernel, p, ins[p]) /\ ins[p].pc # "init"
  <2> TAKE p \in Inserter
  <2>1. 1 \in 1..Len(situation.args[p]) /\ "0" \in Errors /\ {} \in SUBSET Mod
    BY <1>1, SituationIs DEF Errors
  <2>2. \A j \in 1..1 - 1 : ArgumentDone(situation, kernel, p, LookUp(p, 1, "0", {}), j)
    OBVIOUS
  <2>3. ins[p] = LookUp(p, 1, "0", {})
    BY <1>1
  <2> QED BY <1>1, <2>1, <2>2, <2>3, LookUpKeeps
<1>4. ins \in [Inserter -> Records]
  <2>1. ins = [p \in Inserter |-> ins[p]]
    BY <1>1
  <2> QED BY <1>3, <2>1
<1> QED BY <1>1, <1>2, <1>3, <1>4 DEF IInv

\* and every step keeps it.
LEMMA NextKeeps == ASSUME IInv, [Next]_vars PROVE IInv'
<1>1. CASE UNCHANGED vars
  BY <1>1 DEF vars, IInv
<1>2. CASE Next
  <2>1. PICK p \in Inserter : Insert(p)
    BY <1>2 DEF Next
  <2>2. CASE PrintNames(p) \/ UnknownAlias(p)
    BY <2>2, NamesKeep
  <2>3. CASE ReadInitstate(p) \/ StatModuleDir(p) \/ IgnoreLoaded(p)
    BY <2>3, Looks
  <2>4. CASE InsmodRefused(p)
    BY <2>4, RefusedKeeps
  <2>5. CASE InsmodStarts(p)
    BY <2>5, StartsKeeps
  <2>6. CASE \E ok \in BOOLEAN : InsmodEnds(p, ok)
    BY <2>6, EndsKeeps
  <2>7. CASE \E ending \in situation.endings : RunCommand(p, ending)
    BY <2>7, CommandKeeps
  <2> QED BY <2>1, <2>2, <2>3, <2>4, <2>5, <2>6, <2>7 DEF Insert
<1> QED BY <1>1, <1>2

\* What is known of the processes is true in every state: the table of modules is sound,
\* what a process has passed is there, whatever others have done since.
THEOREM InsertInvariant == Spec => []IInv
<1>1. Init => IInv
  BY InitKeeps
<1>2. IInv /\ [Next]_vars => IInv'
  BY NextKeeps
<1> QED BY <1>1, <1>2, PTL DEF Spec

\* A module that is there has all that it needs.
LEMMA HereWithNeeds ==
  ASSUME IInv, NEW m \in Mod, Here(kernel, m)
  PROVE  \A d \in Needs(m) : Present(d)
<1> DEFINE S == {n \in Mod : Here(kernel, n)}
<1>1. \A n \in S : Uses[n] \subseteq S
  BY UsesType DEF IInv, TableSound, Here
<1>2. DepSet(m) \subseteq S
  <2>1. m \in S /\ S \subseteq Mod
    OBVIOUS
  <2> HIDE DEF S
  <2> QED BY <1>1, <2>1, UsedAndNeeded
<1>3. \A d \in DepSet(m) : Here(kernel, d)
  BY <1>2
<1> QED BY <1>3 DEF Needs, Present, Here

\* An argument is one of those the process has done when it ends.
LEMMA ArgumentIs ==
  ASSUME IInv, NEW p \in Inserter, Done(p), Inserts(p), NEW x \in Arguments(p)
  PROVE  \E j \in 1..Len(situation.args[p]) :
           /\ ModsOf(situation, p, j) = Lookup[x] /\ Lookup[x] \in Seq(Mod)
           /\ Lookup[x] # <<>> /\ Len(Lookup[x]) \in 1..Len(Lookup[x])
           /\ ArgumentDone(situation, kernel, p, ins[p], j)
<1>1. Lookup[x] # <<>> /\ x \in ToSet(situation.args[p])
  BY DEF Arguments
<1>2. situation \in Situations /\ Doing(situation, kernel, p, ins[p]) /\ Inserting(situation, p)
  BY Translated DEF IInv
<1>3. PICK j \in 1..Len(situation.args[p]) : situation.args[p][j] = x
  BY <1>1, <1>2, SituationIs DEF ToSet
<1>4. ModsOf(situation, p, j) = Lookup[x] /\ Lookup[x] \in Seq(Mod) /\ Len(Lookup[x]) \in Nat
  BY <1>2, <1>3, SituationIs DEF ModsOf
<1>5. Len(Lookup[x]) \in 1..Len(Lookup[x])
  BY <1>1, <1>4, EmptySeq
<1>6. ArgumentDone(situation, kernel, p, ins[p], j)
  BY <1>2 DEF Done, Doing, ArgumentsDone
<1> QED BY <1>1, <1>3, <1>4, <1>5, <1>6

\* The exit status of modprobe is true: InsertedAll, for every graph of modules and of soft
\* dependencies, all situations and any number of processes.
THEOREM StatusIsTrue == Spec => []InsertedAll
<1>1. IInv => InsertedAll
  <2> SUFFICES ASSUME IInv, NEW p \in Inserter, Succeeded(p), Inserts(p), NEW x \in Arguments(p),
                      Last(Lookup[x]) \notin Exempt
               PROVE  \A m \in Needs(Last(Lookup[x])) : Present(m)
    BY DEF InsertedAll
  <2> DEFINE mods == Lookup[x]
             last == mods[Len(mods)]
  <2>1. Done(p) /\ ins[p].status = "0"
    BY DEF Succeeded
  <2>2. PICK j \in 1..Len(situation.args[p]) :
          /\ ModsOf(situation, p, j) = mods /\ mods \in Seq(Mod) /\ mods # <<>> /\ Len(mods) \in 1..Len(mods)
          /\ ArgumentDone(situation, kernel, p, ins[p], j)
    BY <2>1, ArgumentIs
  <2>3. Passed(situation, kernel, p, ins[p].did, last, last)
    BY <2>1, <2>2 DEF ArgumentDone
  <2>4. Last(mods) = last /\ last \in Mod
    BY <2>2 DEF Last
  <2>5. Here(kernel, last)
    BY <2>3, <2>4, Translated DEF Passed
  <2> QED BY <2>4, <2>5, HereWithNeeds
<1> QED BY <1>1, InsertInvariant, PTL

\* Whatever fails, the modules are inserted whose probe lists have nothing that may fail:
\* AllTried, of every process that ends.
THEOREM OthersAreTried == Spec => []AllTried
<1>1. IInv => AllTried
  <2> SUFFICES ASSUME IInv, NEW p \in Inserter, Done(p), Inserts(p), NEW x \in Arguments(p),
                      NEW m \in ToSet(Lookup[x]),
                      ToSet(ProbeFor(p, m).list) \cap (Exempt \cup situation.nofile) = {}
               PROVE  \A d \in Needs(m) : Present(d)
    BY DEF AllTried
  <2>1. PICK j \in 1..Len(situation.args[p]) :
          /\ ModsOf(situation, p, j) = Lookup[x] /\ Lookup[x] \in Seq(Mod)
          /\ ArgumentDone(situation, kernel, p, ins[p], j)
    BY ArgumentIs
  <2>2. PICK n \in 1..Len(Lookup[x]) : Lookup[x][n] = m
    BY <2>1 DEF ToSet
  <2>3. m \in Mod /\ Tried(situation, kernel, p, m)
    BY <2>1, <2>2 DEF ArgumentDone
  <2>4. ListOf(situation, p, m) = ProbeFor(p, m).list /\ ListOf(situation, p, m) \in Seq(Mod)
    BY <2>3, ListIs DEF ListOf, ProbeFor, Has
  <2>5. ListedFor(situation, p, m) = ToSet(ProbeFor(p, m).list)
    BY <2>4 DEF ListedFor, ToSet
  <2>6. Here(kernel, m)
    BY <2>3, <2>5, Translated DEF Tried
  <2> QED BY <2>3, <2>6, HereWithNeeds
<1> QED BY <1>1, InsertInvariant, PTL

\* FAIL_ON_LOADED: a process that is told that it succeeded has inserted the module itself
\* (FirstTimeOnce).
THEOREM OneIsFirst == Spec => []FirstTimeOnce
<1>1. IInv => FirstTimeOnce
  <2> SUFFICES ASSUME IInv, NEW p \in Inserter, Succeeded(p), Inserts(p), Has(p, "fail_on_loaded"),
                      NEW x \in Arguments(p), Last(Lookup[x]) \notin Exempt
               PROVE  Last(Lookup[x]) \in ins[p].did
    BY DEF FirstTimeOnce
  <2> DEFINE mods == Lookup[x]
             last == mods[Len(mods)]
  <2>1. Done(p) /\ ins[p].status = "0"
    BY DEF Succeeded
  <2>2. PICK j \in 1..Len(situation.args[p]) :
          /\ ModsOf(situation, p, j) = mods /\ mods \in Seq(Mod) /\ mods # <<>> /\ Len(mods) \in 1..Len(mods)
          /\ ArgumentDone(situation, kernel, p, ins[p], j)
    BY <2>1, ArgumentIs
  <2>3. Passed(situation, kernel, p, ins[p].did, last, last)
    BY <2>1, <2>2 DEF ArgumentDone
  <2>4. Last(mods) = last
    BY <2>2 DEF Last
  <2> QED BY <2>3, <2>4, Translated DEF Passed, Has
<1> QED BY <1>1, InsertInvariant, PTL
=============================================================================
