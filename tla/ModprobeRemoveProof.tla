------------------------ MODULE ModprobeRemoveProof ------------------------
(***************************************************************************)
(* "modprobe -r --first-time m" succeeds only in the process that has      *)
(* removed m, for any graph of modules, soft dependencies in cycles        *)
(* included, any number of processes, and however deep they recurse.       *)
(***************************************************************************)
EXTENDS ModprobeRemove, SequenceTheorems, FiniteSetTheorems, TLAPS

Errors == {"0", "ENOENT", "EAGAIN", "EBUSY", "1", "signal"}
Places == {"state", "stat", "post", "deps", "usage", "remove", "removed", "pre",
           "delete", "going", "unused"}

\* A frame of rmmod_do_remove_module is within the dependencies of its module.
Frames ==
  {g \in [fn : {"module", "remove"}, mod : Mod, deps : BOOLEAN, at : Places, i : Nat, err : Errors] :
     g.fn = "remove" => g.i <= Len(Deps[g.mod])}

Processes == [stack : Seq(Frames), ret : Errors, did : SUBSET Mod]

\* What is known of a process p in the state r: the first frame is that of its target;
\* when the call of rmmod_do_remove_module that the first frame made has no error, or
\* the frame has gone on without one, or returned so, the target has been removed.
Honest(p, r) ==
  LET s == r.stack
      removed == RemoveTarget[p] \in r.did
  IN  /\ s # <<>> => s[1].fn = "module" /\ s[1].mod = RemoveTarget[p]
      /\ Claims(p) =>
           /\ s = <<>> /\ r.ret = "0" => removed
           /\ Len(s) = 1 /\ s[1].at = "removed" /\ r.ret = "0" => removed
           /\ s # <<>> /\ s[1].at = "pre" /\ s[1].err = "0" => removed
           /\ Len(s) > 1 /\ s[1].at = "removed" =>
                /\ s[2].fn = "remove" /\ s[2].mod = RemoveTarget[p]
                /\ s[2].at = "unused" /\ s[2].err = "0" => removed

\* The inductive invariant
IInv == rem \in [Remover -> Processes] /\ \A p \in Remover : Honest(p, rem[p])

----------------------------------------------------------------------------
(* Stacks.                                                                 *)

\* The top of a stack is taken away.
LEMMA Popped ==
  ASSUME NEW S, NEW s \in Seq(S), s # <<>>
  PROVE  /\ Len(s) \in Nat \ {0}
         /\ Last(s) = s[Len(s)] /\ Last(s) \in S
         /\ Front(s) \in Seq(S) /\ Len(Front(s)) = Len(s) - 1
         /\ \A k \in 1..Len(s) - 1 : Front(s)[k] = s[k]
<1>1. Len(s) \in Nat \ {0}
  BY EmptySeq
<1>2. \A k \in 1..Len(s) : s[k] \in S
  BY ElementOfSeq
<1>3. Last(s) = s[Len(s)]
  BY DEF Last
<1>4. s[Len(s)] \in S
  BY <1>1, <1>2
<1> DEFINE n == Len(s) - 1
           t == SubSeq(s, 1, n)
<1>5. n \in Nat /\ \A k \in 1..n : s[k] \in S
  BY <1>1, <1>2
<1>6. /\ t \in Seq(S) /\ Len(t) = IF 1 <= n THEN n - 1 + 1 ELSE 0
      /\ \A k \in 1..n - 1 + 1 : t[k] = s[1 + k - 1]
  <2> HIDE DEF n
  <2> QED
    BY <1>5, SubSeqProperties
<1>7. Front(s) = t
  BY DEF Front
<1> HIDE DEF t
<1> QED
  BY <1>1, <1>3, <1>4, <1>5, <1>6, <1>7

\* The top of a stack is replaced.
LEMMA Replaced ==
  ASSUME NEW S, NEW s \in Seq(S), s # <<>>, NEW g \in S
  PROVE  /\ Len(s) \in Nat \ {0}
         /\ Append(Front(s), g) \in Seq(S) /\ Len(Append(Front(s), g)) = Len(s)
         /\ \A k \in 1..Len(s) : Append(Front(s), g)[k] = IF k = Len(s) THEN g ELSE s[k]
<1> DEFINE t == Front(s)
<1>1. /\ Len(s) \in Nat \ {0} /\ t \in Seq(S) /\ Len(t) = Len(s) - 1
      /\ \A k \in 1..Len(s) - 1 : t[k] = s[k]
  BY Popped
<1> HIDE DEF t
<1>2. /\ Append(t, g) \in Seq(S) /\ Len(Append(t, g)) = Len(t) + 1
      /\ \A k \in 1..Len(t) : Append(t, g)[k] = t[k]
      /\ Append(t, g)[Len(t) + 1] = g
  BY <1>1, AppendProperties
<1> DEFINE u == Append(t, g)
<1> HIDE DEF u
<1>3. u \in Seq(S) /\ Len(u) = Len(s) /\ \A k \in 1..Len(s) : u[k] = IF k = Len(s) THEN g ELSE s[k]
  BY <1>1, <1>2 DEF u
<1> QED
  BY <1>1, <1>3 DEF u, t

\* A frame is put on top.
LEMMA Pushed ==
  ASSUME NEW S, NEW s \in Seq(S), NEW g \in S
  PROVE  /\ s \o <<g>> \in Seq(S) /\ Len(s \o <<g>>) = Len(s) + 1
         /\ \A k \in 1..Len(s) : (s \o <<g>>)[k] = s[k]
         /\ (s \o <<g>>)[Len(s) + 1] = g
BY AppendProperties, AppendIsConcat

----------------------------------------------------------------------------
(* What a step does to a process r with its frame f on top; g is f as it   *)
(* goes on.                                                                *)

\* How many frames there are
LEMMA Depth == \A n \in Nat \ {0} : n = 1 \/ n = 2 \/ n > 2
OBVIOUS

Top(r) == r.stack[Len(r.stack)]

\* The conditions under which the frame g may take the place of the top
GoesOn(p, r, g, did) ==
  LET n == Len(r.stack) IN
  /\ g \in Frames /\ g.fn = Top(r).fn /\ g.mod = Top(r).mod
  /\ Claims(p) =>
       /\ n = 1 /\ g.at = "pre" /\ g.err = "0" => RemoveTarget[p] \in did
       /\ /\ n = 2 /\ g.fn = "remove" /\ g.mod = RemoveTarget[p] /\ g.at = "unused" /\ g.err = "0"
          /\ r.stack[1].at = "removed"
          => RemoveTarget[p] \in did

\* The running function goes on.
LEMMA HonestContinue ==
  ASSUME NEW p \in Remover, NEW r \in Processes, Honest(p, r), r.stack # <<>>,
         NEW q \in Processes, NEW g, GoesOn(p, r, g, q.did),
         q.stack = Append(Front(r.stack), g), r.did \subseteq q.did,
         Claims(p) /\ Len(r.stack) = 1 /\ g.at = "removed" /\ q.ret = "0" => RemoveTarget[p] \in q.did
  PROVE  Honest(p, q)
<1> DEFINE s == r.stack
           t == q.stack
<1>1. s \in Seq(Frames) /\ g \in Frames
  BY DEF Processes, GoesOn
<1>2. /\ Len(s) \in Nat \ {0} /\ Len(t) = Len(s)
      /\ \A k \in 1..Len(s) : t[k] = IF k = Len(s) THEN g ELSE s[k]
  <2>1. s # <<>> /\ t = Append(Front(s), g)
    OBVIOUS
  <2> HIDE DEF s, t
  <2> QED
    BY <1>1, <2>1, Replaced
<1>3. t # <<>>
  BY <1>2
<1>4. CASE Len(s) = 1
  BY <1>2, <1>3, <1>4 DEF Honest, GoesOn, Top
<1>5. CASE Len(s) = 2
  <2>1. t[1] = s[1] /\ t[2] = g /\ Top(r) = s[2]
    BY <1>2, <1>5 DEF Top
  <2> QED
    BY <1>2, <1>3, <1>5, <2>1 DEF Honest, GoesOn
<1>6. CASE Len(s) > 2
  <2>1. t[1] = s[1] /\ t[2] = s[2]
    BY <1>2, <1>6
  <2> QED
    BY <1>2, <1>3, <1>6, <2>1 DEF Honest
<1>7. Len(s) = 1 \/ Len(s) = 2 \/ Len(s) > 2
  BY <1>2, Depth
<1> QED
  BY <1>4, <1>5, <1>6, <1>7

\* It calls a function.
LEMMA HonestCall ==
  ASSUME NEW p \in Remover, NEW r \in Processes, Honest(p, r), r.stack # <<>>,
         NEW q \in Processes, NEW g, GoesOn(p, r, g, q.did), NEW c \in Frames,
         q.stack = Append(Front(r.stack), g) \o <<c>>, q.ret = r.ret, r.did \subseteq q.did,
         Len(r.stack) = 1 /\ g.at = "removed" =>
           c.fn = "remove" /\ c.mod = RemoveTarget[p] /\ c.at = "delete"
  PROVE  Honest(p, q)
<1> DEFINE s == r.stack
           u == Append(Front(s), g)
           t == q.stack
<1>1. s \in Seq(Frames) /\ g \in Frames
  BY DEF Processes, GoesOn
<1>2. /\ Len(s) \in Nat \ {0} /\ Len(u) = Len(s) /\ u \in Seq(Frames)
      /\ \A k \in 1..Len(s) : u[k] = IF k = Len(s) THEN g ELSE s[k]
  <2>1. s # <<>>
    OBVIOUS
  <2> HIDE DEF s
  <2> QED
    BY <1>1, <2>1, Replaced
<1>3. /\ Len(t) = Len(s) + 1 /\ t[Len(s) + 1] = c
      /\ \A k \in 1..Len(s) : t[k] = IF k = Len(s) THEN g ELSE s[k]
  <2> HIDE DEF u
  <2>1. /\ u \o <<c>> \in Seq(Frames) /\ Len(u \o <<c>>) = Len(u) + 1
        /\ \A k \in 1..Len(u) : (u \o <<c>>)[k] = u[k]
        /\ (u \o <<c>>)[Len(u) + 1] = c
    BY <1>2, Pushed
  <2>2. t = u \o <<c>>
    BY DEF u
  <2> HIDE DEF t
  <2> QED
    BY <1>2, <2>1, <2>2
<1>4. t # <<>>
  BY <1>2, <1>3
<1>5. CASE Len(s) = 1
  <2>1. t[1] = g /\ t[2] = c /\ Top(r) = s[1]
    BY <1>2, <1>3, <1>5 DEF Top
  <2> QED
    BY <1>2, <1>3, <1>4, <1>5, <2>1 DEF Honest, GoesOn
<1>6. CASE Len(s) = 2
  <2>1. t[1] = s[1] /\ t[2] = g /\ Top(r) = s[2]
    BY <1>2, <1>3, <1>6 DEF Top
  <2> QED
    BY <1>2, <1>3, <1>4, <1>6, <2>1 DEF Honest, GoesOn
<1>7. CASE Len(s) > 2
  <2>1. t[1] = s[1] /\ t[2] = s[2]
    BY SMTT(30), <1>2, <1>3, <1>7
  <2> QED
    BY <1>2, <1>3, <1>4, <1>7, <2>1 DEF Honest
<1>8. Len(s) = 1 \/ Len(s) = 2 \/ Len(s) > 2
  BY <1>2, Depth
<1> QED
  BY <1>5, <1>6, <1>7, <1>8

\* It returns.
LEMMA HonestReturn ==
  ASSUME NEW p \in Remover, NEW r \in Processes, Honest(p, r), r.stack # <<>>,
         NEW q \in Processes, q.stack = Front(r.stack), q.did = r.did,
         Claims(p) /\ q.ret = "0" /\ (Len(r.stack) = 1 \/ (Len(r.stack) = 2 /\ r.stack[1].at = "removed")) =>
           RemoveTarget[p] \in r.did
  PROVE  Honest(p, q)
<1> DEFINE s == r.stack
           t == q.stack
<1>1. s \in Seq(Frames) /\ t \in Seq(Frames)
  BY DEF Processes
<1>2. Len(s) \in Nat \ {0} /\ Len(t) = Len(s) - 1 /\ \A k \in 1..Len(s) - 1 : t[k] = s[k]
  BY <1>1, Popped, EmptySeq, LenProperties
<1>3. t = <<>> <=> Len(s) = 1
  <2>1. Len(t) = 0 <=> Len(s) = 1
    BY <1>2
  <2>2. Len(t) = 0 <=> t = <<>>
    BY <1>1, EmptySeq
  <2> QED
    BY <2>1, <2>2
<1>4. CASE Len(s) = 1
  BY <1>2, <1>3, <1>4 DEF Honest
<1>5. CASE Len(s) = 2
  <2>1. t[1] = s[1] /\ Len(t) = 1
    BY <1>2, <1>5
  <2> QED
    BY <1>3, <1>5, <2>1 DEF Honest
<1>6. CASE Len(s) > 2
  <2>1. t[1] = s[1] /\ t[2] = s[2] /\ Len(t) > 1
    BY <1>2, <1>6
  <2> QED
    BY <1>2, <1>3, <1>6, <2>1 DEF Honest
<1>7. Len(s) = 1 \/ Len(s) = 2 \/ Len(s) > 2
  BY <1>2, Depth
<1> QED
  BY <1>4, <1>5, <1>6, <1>7

----------------------------------------------------------------------------
(* Steps of a process p.                                                   *)

\* What is known of the process that is about to make a step
LEMMA Running ==
  ASSUME IInv, NEW p \in Remover, rem[p].stack # <<>>
  PROVE  /\ rem[p] \in Processes /\ Honest(p, rem[p])
         /\ Frame(p) = Top(rem[p]) /\ Frame(p) \in Frames
         /\ Len(rem[p].stack) \in Nat \ {0}
         /\ Len(rem[p].stack) = 1 => Frame(p) = rem[p].stack[1]
         /\ Len(rem[p].stack) = 2 => Frame(p) = rem[p].stack[2]
         /\ rem[p].ret \in Errors
<1>1. rem[p] \in Processes /\ Honest(p, rem[p])
  BY DEF IInv
<1>2. rem[p].stack \in Seq(Frames) /\ rem[p].ret \in Errors
  BY <1>1 DEF Processes
<1>3. /\ Len(rem[p].stack) \in Nat \ {0}
      /\ Last(rem[p].stack) = rem[p].stack[Len(rem[p].stack)] /\ Last(rem[p].stack) \in Frames
  BY <1>2, Popped
<1> QED
  BY <1>1, <1>2, <1>3 DEF Frame, Top

\* The other processes stay what they are.
LEMMA OneMoves ==
  ASSUME IInv, NEW p \in Remover, NEW q \in Processes, Honest(p, q), SetRem(p, q)
  PROVE  IInv'
<1>1. rem' \in [Remover -> Processes]
  BY DEF IInv, SetRem
<1>2. \A x \in Remover : rem'[x] = IF x = p THEN q ELSE rem[x]
  BY DEF IInv, SetRem
<1>3. \A x \in Remover : Honest(x, rem'[x])
  BY <1>2 DEF IInv
<1> QED
  BY <1>1, <1>3 DEF IInv

\* The running function goes on.
LEMMA Continues ==
  ASSUME IInv, NEW p \in Remover, rem[p].stack # <<>>,
         NEW g, GoesOn(p, rem[p], g, rem[p].did), Continue(p, g),
         Claims(p) /\ Len(rem[p].stack) = 1 => g.at # "removed"
  PROVE  IInv'
<1> DEFINE r == rem[p]
           q == [r EXCEPT !.stack = Append(Front(@), g)]
<1>1. r \in Processes /\ Honest(p, r)
  BY Running
<1>2. g \in Frames
  BY DEF GoesOn
<1>3. Append(Front(r.stack), g) \in Seq(Frames)
  BY <1>1, <1>2, Replaced DEF Processes
<1>4. q \in Processes /\ q.stack = Append(Front(r.stack), g) /\ q.did = r.did /\ q.ret = r.ret
  BY <1>1, <1>3 DEF Processes
<1>5. SetRem(p, q)
  BY DEF Continue
<1> HIDE DEF q
<1>6. Honest(p, q)
  BY <1>1, <1>4, HonestContinue
<1> QED
  BY <1>4, <1>5, <1>6, OneMoves

\* It goes on at a place where nothing is claimed.
LEMMA GoesTo ==
  ASSUME IInv, NEW p \in Remover, rem[p].stack # <<>>,
         NEW at \in Places \ {"pre", "removed", "unused"}, Goto(p, at)
  PROVE  IInv'
<1> DEFINE g == [Frame(p) EXCEPT !.at = at, !.i = 0]
<1>1. Frame(p) \in Frames /\ Frame(p) = Top(rem[p])
  BY Running
<1>2. g.fn = Frame(p).fn /\ g.mod = Frame(p).mod /\ g.at = at /\ g.i = 0
  BY <1>1 DEF Frames
<1>3. g.fn = "remove" => g.mod \in Mod
  BY <1>1, <1>2 DEF Frames
<1>4. g.fn = "remove" => g.i <= Len(Deps[g.mod])
  BY <1>2, <1>3, DepsClosed, LenProperties
<1>5. g \in Frames
  BY <1>1, <1>4 DEF Frames, Places
<1>6. Continue(p, g)
  BY DEF Goto
<1> HIDE DEF g
<1>7. GoesOn(p, rem[p], g, rem[p].did)
  BY <1>1, <1>2, <1>5 DEF GoesOn
<1> QED
  BY <1>2, <1>6, <1>7, Continues

\* It calls a function.
LEMMA Calls ==
  ASSUME IInv, NEW p \in Remover, rem[p].stack # <<>>,
         NEW g, GoesOn(p, rem[p], g, rem[p].did), NEW c \in Frames, Call(p, g, c),
         Len(rem[p].stack) = 1 /\ g.at = "removed" =>
           c.fn = "remove" /\ c.mod = RemoveTarget[p] /\ c.at = "delete"
  PROVE  IInv'
<1> DEFINE r == rem[p]
           q == [r EXCEPT !.stack = Append(Front(@), g) \o <<c>>]
<1>1. r \in Processes /\ Honest(p, r)
  BY Running
<1>2. g \in Frames
  BY DEF GoesOn
<1>3. Append(Front(r.stack), g) \o <<c>> \in Seq(Frames)
  <2>1. Append(Front(r.stack), g) \in Seq(Frames)
    BY <1>1, <1>2, Replaced DEF Processes
  <2> QED
    BY <2>1, Pushed
<1>4. /\ q \in Processes /\ q.stack = Append(Front(r.stack), g) \o <<c>>
      /\ q.did = r.did /\ q.ret = r.ret
  BY <1>1, <1>3 DEF Processes
<1>5. SetRem(p, q)
  BY DEF Call
<1> HIDE DEF q
<1>6. Honest(p, q)
  BY <1>1, <1>4, HonestCall
<1> QED
  BY <1>4, <1>5, <1>6, OneMoves

\* It returns.
LEMMA Returns ==
  ASSUME IInv, NEW p \in Remover, rem[p].stack # <<>>, NEW err \in Errors, Return(p, err),
         Claims(p) /\ err = "0" /\ (Len(rem[p].stack) = 1 \/
             (Len(rem[p].stack) = 2 /\ rem[p].stack[1].at = "removed")) =>
           RemoveTarget[p] \in rem[p].did
  PROVE  IInv'
<1> DEFINE r == rem[p]
           q == [r EXCEPT !.stack = Front(@), !.ret = err]
<1>1. r \in Processes /\ Honest(p, r)
  BY Running
<1>2. Front(r.stack) \in Seq(Frames)
  BY <1>1, Popped DEF Processes
<1>3. q \in Processes /\ q.stack = Front(r.stack) /\ q.did = r.did /\ q.ret = err
  BY <1>1, <1>2 DEF Processes
<1>4. SetRem(p, q)
  BY DEF Return
<1> HIDE DEF q
<1>5. Honest(p, q)
  BY <1>1, <1>3, HonestReturn
<1> QED
  BY <1>3, <1>4, <1>5, OneMoves

\* What Honest says of rmmod_do_module on top of the stack
LEMMA InModule ==
  ASSUME IInv, NEW p \in Remover, rem[p].stack # <<>>, Frame(p).fn = "module", Claims(p)
  PROVE  /\ ~(Len(rem[p].stack) = 2 /\ rem[p].stack[1].at = "removed")
         /\ Len(rem[p].stack) = 1 =>
              /\ Frame(p).mod = RemoveTarget[p]
              /\ Frame(p).at = "pre" /\ Frame(p).err = "0" => RemoveTarget[p] \in rem[p].did
              /\ Frame(p).at = "removed" /\ rem[p].ret = "0" => RemoveTarget[p] \in rem[p].did
<1> DEFINE n == Len(rem[p].stack)
<1>1. Honest(p, rem[p]) /\ n \in Nat \ {0}
  BY Running
<1>2. n = 1 => Frame(p) = rem[p].stack[1]
  BY Running
<1>3. n = 2 => Frame(p) = rem[p].stack[2]
  BY Running
<1>4. n = 2 => n > 1
  OBVIOUS
<1> QED
  BY <1>1, <1>2, <1>3, <1>4 DEF Honest

\* ... and of rmmod_do_remove_module
LEMMA InRemove ==
  ASSUME IInv, NEW p \in Remover, rem[p].stack # <<>>, Frame(p).fn = "remove", Claims(p)
  PROVE  /\ Len(rem[p].stack) # 1
         /\ Len(rem[p].stack) = 2 /\ rem[p].stack[1].at = "removed" =>
              /\ Frame(p).mod = RemoveTarget[p]
              /\ Frame(p).at = "unused" /\ Frame(p).err = "0" => RemoveTarget[p] \in rem[p].did
<1> DEFINE n == Len(rem[p].stack)
<1>1. Honest(p, rem[p]) /\ n \in Nat \ {0}
  BY Running
<1>2. n = 1 => Frame(p) = rem[p].stack[1]
  BY Running
<1>3. n = 2 => Frame(p) = rem[p].stack[2]
  BY Running
<1>4. n = 2 => n > 1
  OBVIOUS
<1>5. n # 1
  BY <1>1, <1>2 DEF Honest
<1> QED
  BY <1>1, <1>3, <1>4, <1>5 DEF Honest

----------------------------------------------------------------------------
(* rmmod_do_module.                                                        *)

\* A soft dependency is taken from a list.
LEMMA SoftDepStep ==
  ASSUME IInv, NEW p \in Remover, rem[p].stack # <<>>,
         Frame(p).fn = "module", Frame(p).at \in {"post", "deps", "pre"},
         NEW list \in Seq(Mod), Frame(p).i < Len(list),
         Call(p, [Frame(p) EXCEPT !.i = @ + 1],
              ModuleFrame(list[Len(list) - Frame(p).i], FALSE))
  PROVE  IInv'
<1> DEFINE f == Frame(p)
           g == [f EXCEPT !.i = @ + 1]
           c == ModuleFrame(list[Len(list) - f.i], FALSE)
<1>1. f \in Frames /\ f = Top(rem[p])
  BY Running
<1>2. f.i \in Nat /\ Len(list) \in Nat
  BY <1>1, LenProperties DEF Frames
<1>3. Len(list) - f.i \in 1..Len(list)
  BY <1>2
<1>4. list[Len(list) - f.i] \in Mod
  BY <1>3, ElementOfSeq
<1>5. c \in Frames
  BY <1>4 DEF Frames, ModuleFrame, Places, Errors
<1>6. /\ g \in Frames /\ g.fn = "module" /\ g.mod = f.mod /\ g.at = f.at /\ g.err = f.err
      /\ g.at \in {"post", "deps", "pre"}
  BY <1>1, <1>2 DEF Frames
<1>7. Claims(p) /\ Len(rem[p].stack) = 1 /\ f.at = "pre" /\ f.err = "0" => RemoveTarget[p] \in rem[p].did
  BY InModule
<1>8. Call(p, g, c)
  OBVIOUS
<1> HIDE DEF g, c
<1>9. GoesOn(p, rem[p], g, rem[p].did)
  BY <1>1, <1>6, <1>7 DEF GoesOn
<1>10. g.at # "removed"
  BY <1>6
<1> QED
  BY <1>5, <1>8, <1>9, <1>10, Calls

\* The lists of dependencies are sequences of modules.
LEMMA ListsOfModules ==
  ASSUME NEW p \in Remover, NEW m \in Mod
  PROVE  PreOf(p, m) \in Seq(Mod) /\ PostOf(p, m) \in Seq(Mod) /\ Deps[m] \in Seq(Mod) /\ <<>> \in Seq(Mod)
BY SoftdepsType, DepsClosed, EmptySeq DEF PreOf, PostOf

\* ... State
LEMMA StateStep == ASSUME IInv, NEW p \in Remover, State(p) PROVE IInv'
<1>1. rem[p].stack # <<>>
  BY DEF State, In
<1>2. \E at \in {"post", "stat"} : Goto(p, at)
  BY DEF State
<1>3. {"post", "stat"} \subseteq Places \ {"pre", "removed", "unused"}
  BY DEF Places
<1> QED
  BY <1>1, <1>2, <1>3, GoesTo

\* ... Stat, which is an error with --first-time
LEMMA StatStep == ASSUME IInv, NEW p \in Remover, Stat(p) PROVE IInv'
<1> DEFINE err == IF ModuleDir(Frame(p).mod) \/ Opt(p, "first_time") THEN "ENOENT" ELSE "0"
<1>1. rem[p].stack # <<>> /\ Frame(p).fn = "module" /\ Return(p, err)
  BY DEF Stat, In
<1>2. err \in Errors
  BY DEF Errors
<1>3. Claims(p) => err # "0"
  BY DEF Claims
<1> HIDE DEF err
<1> QED
  BY <1>1, <1>2, <1>3, Returns

\* ... PostDeps
LEMMA PostDepsStep == ASSUME IInv, NEW p \in Remover, PostDeps(p) PROVE IInv'
<1> DEFINE list == PostOf(p, Frame(p).mod)
<1>1. rem[p].stack # <<>> /\ Frame(p).fn = "module" /\ Frame(p).at = "post"
  BY DEF PostDeps, In
<1>2. Frame(p) \in Frames
  BY <1>1, Running
<1>3. list \in Seq(Mod)
  BY <1>2, ListsOfModules DEF Frames
<1>4. SoftDepsList(p, list, Goto(p, "deps"))
  BY DEF PostDeps
<1> HIDE DEF list
<1>5. CASE Frame(p).i < Len(list)
  BY <1>1, <1>3, <1>4, <1>5, SoftDepStep DEF SoftDepsList
<1>6. CASE ~(Frame(p).i < Len(list))
  <2>1. Goto(p, "deps")
    BY <1>4, <1>6 DEF SoftDepsList
  <2> QED
    BY <1>1, <2>1, GoesTo DEF Places
<1> QED
  BY <1>5, <1>6

\* ... HardDeps
LEMMA HardDepsStep == ASSUME IInv, NEW p \in Remover, HardDeps(p) PROVE IInv'
<1> DEFINE list == IF Frame(p).deps /\ Opt(p, "remove_dependencies")
                   THEN Deps[Frame(p).mod] ELSE <<>>
<1>1. rem[p].stack # <<>> /\ Frame(p).fn = "module" /\ Frame(p).at = "deps"
  BY DEF HardDeps, In
<1>2. Frame(p) \in Frames /\ rem[p].ret \in Errors
  BY <1>1, Running
<1>3. list \in Seq(Mod)
  BY <1>2, ListsOfModules DEF Frames
<1>4. IF Frame(p).i > 0 /\ Failed(rem[p].ret)
      THEN Return(p, rem[p].ret)
      ELSE SoftDepsList(p, list, Goto(p, "usage"))
  BY DEF HardDeps
<1> HIDE DEF list
<1>5. CASE Frame(p).i > 0 /\ Failed(rem[p].ret)
  BY <1>1, <1>2, <1>4, <1>5, Returns DEF Failed
<1>6. CASE ~(Frame(p).i > 0 /\ Failed(rem[p].ret)) /\ Frame(p).i < Len(list)
  BY <1>1, <1>3, <1>4, <1>6, SoftDepStep DEF SoftDepsList
<1>7. CASE ~(Frame(p).i > 0 /\ Failed(rem[p].ret)) /\ ~(Frame(p).i < Len(list))
  <2>1. Goto(p, "usage")
    BY <1>4, <1>7 DEF SoftDepsList
  <2> QED
    BY <1>1, <2>1, GoesTo DEF Places
<1> QED
  BY <1>5, <1>6, <1>7

\* ... Usage
LEMMA UsageStep == ASSUME IInv, NEW p \in Remover, Usage(p) PROVE IInv'
<1>1. rem[p].stack # <<>>
  BY DEF Usage, In
<1>2. CASE Return(p, "EBUSY")
  BY <1>1, <1>2, Returns DEF Errors
<1>3. CASE Goto(p, "remove")
  BY <1>1, <1>3, GoesTo DEF Places
<1> QED
  BY <1>2, <1>3 DEF Usage

\* ... RemoveModule: the first frame calls rmmod_do_remove_module of the target.
LEMMA RemoveModuleStep == ASSUME IInv, NEW p \in Remover, RemoveModule(p) PROVE IInv'
<1> DEFINE f == Frame(p)
           g == [f EXCEPT !.at = "removed"]
           c == RemoveFrame(f.mod)
<1>1. rem[p].stack # <<>> /\ f.fn = "module" /\ f.at = "remove" /\ Call(p, g, c)
  BY DEF RemoveModule, In
<1>2. f \in Frames /\ f = Top(rem[p])
  BY <1>1, Running
<1>3. f.mod \in Mod
  BY <1>2 DEF Frames
<1>4. c \in Frames /\ c.fn = "remove" /\ c.mod = f.mod /\ c.at = "delete"
  BY <1>3, DepsClosed, LenProperties DEF Frames, RemoveFrame, Places, Errors
<1>5. g \in Frames /\ g.fn = "module" /\ g.mod = f.mod /\ g.at = "removed"
  BY <1>1, <1>2 DEF Frames, Places
<1>6. Len(rem[p].stack) = 1 => f.mod = RemoveTarget[p]
  BY <1>1, Running DEF Honest
<1> HIDE DEF g, c
<1>7. GoesOn(p, rem[p], g, rem[p].did)
  BY <1>1, <1>2, <1>5 DEF GoesOn
<1> QED
  BY <1>1, <1>4, <1>6, <1>7, Calls

\* ... RunRemoveCommand: not of the target of a process that claims its removal
LEMMA CommandStep ==
  ASSUME IInv, NEW p \in Remover, NEW ending \in RemoveEndings, RunRemoveCommand(p, ending)
  PROVE  IInv'
<1> DEFINE f == Frame(p)
           g == [f EXCEPT !.at = "removed"]
           ret == IF Opt(p, "dry_run") THEN "0" ELSE ending
           q == [rem[p] EXCEPT !.stack = Append(Front(@), g), !.ret = ret]
<1>1. rem[p].stack # <<>> /\ f.fn = "module" /\ HasCommand(p, f.mod) /\ SetRem(p, q)
  BY DEF RunRemoveCommand, In
<1>2. f \in Frames /\ f = Top(rem[p]) /\ rem[p] \in Processes /\ Honest(p, rem[p])
  BY <1>1, Running
<1>3. g \in Frames /\ g.fn = "module" /\ g.mod = f.mod /\ g.at = "removed"
  BY <1>1, <1>2 DEF Frames, Places
<1>4. ret \in Errors
  BY RemoverType DEF Errors
<1>5. ~(Claims(p) /\ Len(rem[p].stack) = 1)
  BY <1>1, InModule DEF Claims
<1> HIDE DEF g, ret
<1>6. Append(Front(rem[p].stack), g) \in Seq(Frames)
  BY <1>1, <1>2, <1>3, Replaced DEF Processes
<1>7. /\ q \in Processes /\ q.stack = Append(Front(rem[p].stack), g)
      /\ q.did = rem[p].did /\ q.ret = ret
  BY <1>2, <1>4, <1>6 DEF Processes
<1> HIDE DEF q
<1>8. GoesOn(p, rem[p], g, q.did)
  BY <1>1, <1>2, <1>3 DEF GoesOn
<1>9. Honest(p, q)
  BY <1>1, <1>2, <1>5, <1>7, <1>8, HonestContinue
<1> QED
  BY <1>1, <1>7, <1>9, OneMoves

\* ... Removed: the result of the call is in ret.
LEMMA RemovedStep == ASSUME IInv, NEW p \in Remover, Removed(p) PROVE IInv'
<1> DEFINE f == Frame(p)
           g == [f EXCEPT !.at = "pre", !.i = 0, !.err = rem[p].ret]
<1>1. rem[p].stack # <<>> /\ f.fn = "module" /\ f.at = "removed"
  BY DEF Removed, In
<1>2. f \in Frames /\ f = Top(rem[p]) /\ rem[p].ret \in Errors
  BY <1>1, Running
<1>3. CASE Failed(rem[p].ret)
  BY <1>1, <1>2, <1>3, Returns DEF Removed, Failed
<1>4. CASE ~Failed(rem[p].ret)
  <2>1. Continue(p, g)
    BY <1>4 DEF Removed
  <2>2. /\ g \in Frames /\ g.fn = "module" /\ g.mod = f.mod
        /\ g.at = "pre" /\ g.err = rem[p].ret
    BY <1>1, <1>2 DEF Frames, Places
  <2> HIDE DEF g
  <2>3. GoesOn(p, rem[p], g, rem[p].did)
    BY <1>1, <1>2, <2>2, InModule DEF GoesOn
  <2> QED
    BY <1>1, <2>1, <2>2, <2>3, Continues
<1> QED
  BY <1>3, <1>4

\* ... PreDeps, the last thing it does
LEMMA PreDepsStep == ASSUME IInv, NEW p \in Remover, PreDeps(p) PROVE IInv'
<1> DEFINE list == PreOf(p, Frame(p).mod)
<1>1. rem[p].stack # <<>> /\ Frame(p).fn = "module" /\ Frame(p).at = "pre"
  BY DEF PreDeps, In
<1>2. Frame(p) \in Frames
  BY <1>1, Running
<1>3. list \in Seq(Mod) /\ Frame(p).err \in Errors
  BY <1>2, ListsOfModules DEF Frames
<1>4. SoftDepsList(p, list, Return(p, Frame(p).err))
  BY DEF PreDeps
<1> HIDE DEF list
<1>5. CASE Frame(p).i < Len(list)
  BY <1>1, <1>3, <1>4, <1>5, SoftDepStep DEF SoftDepsList
<1>6. CASE ~(Frame(p).i < Len(list))
  <2>1. Return(p, Frame(p).err)
    BY <1>4, <1>6 DEF SoftDepsList
  <2> QED
    BY <1>1, <1>3, <2>1, InModule, Returns
<1> QED
  BY <1>5, <1>6

----------------------------------------------------------------------------
(* rmmod_do_remove_module.                                                 *)

\* DeleteDryRun: nobody who claims a removal asks for it.
LEMMA DryRunStep == ASSUME IInv, NEW p \in Remover, DeleteDryRun(p) PROVE IInv'
<1>1. rem[p].stack # <<>> /\ Return(p, "0") /\ Opt(p, "dry_run")
  BY DEF DeleteDryRun, In
<1>2. ~Claims(p)
  BY <1>1 DEF Claims
<1> QED
  BY <1>1, <1>2, Returns DEF Errors

\* ... DeleteRefused keeps the error.
LEMMA RefusedStep == ASSUME IInv, NEW p \in Remover, DeleteRefused(p) PROVE IInv'
<1> DEFINE f == Frame(p)
           err == DeleteModuleError(f.mod)
           g == [f EXCEPT !.at = "unused", !.err = err]
<1>1. rem[p].stack # <<>> /\ f.fn = "remove" /\ err # "0" /\ Continue(p, g)
  BY DEF DeleteRefused, In
<1>2. f \in Frames /\ f = Top(rem[p])
  BY <1>1, Running
<1>3. err \in Errors
  BY DEF DeleteModuleError, Errors
<1> HIDE DEF err
<1>4. /\ g \in Frames /\ g.fn = "remove" /\ g.mod = f.mod
      /\ g.at = "unused" /\ g.err = err
  BY <1>1, <1>2, <1>3 DEF Frames, Places
<1> HIDE DEF g
<1>5. GoesOn(p, rem[p], g, rem[p].did)
  BY <1>1, <1>2, <1>4 DEF GoesOn
<1> QED
  BY <1>1, <1>4, <1>5, Continues

\* ... DeleteStarts
LEMMA StartsStep == ASSUME IInv, NEW p \in Remover, DeleteStarts(p) PROVE IInv'
<1>1. rem[p].stack # <<>> /\ Goto(p, "going")
  BY DEF DeleteStarts, In
<1> QED
  BY <1>1, GoesTo DEF Places

\* ... DeleteEnds, where the module is removed
LEMMA EndsStep == ASSUME IInv, NEW p \in Remover, DeleteEnds(p) PROVE IInv'
<1> DEFINE f == Frame(p)
           g == [f EXCEPT !.at = "unused"]
           q == [rem[p] EXCEPT !.stack = Append(Front(@), g), !.did = @ \cup {f.mod}]
<1>1. rem[p].stack # <<>> /\ f.fn = "remove" /\ SetRem(p, q)
  BY DEF DeleteEnds, In
<1>2. f \in Frames /\ f = Top(rem[p]) /\ rem[p] \in Processes /\ Honest(p, rem[p])
  BY <1>1, Running
<1>3. f.mod \in Mod /\ g \in Frames /\ g.fn = "remove" /\ g.mod = f.mod /\ g.at = "unused"
  BY <1>1, <1>2 DEF Frames, Places
<1> HIDE DEF g
<1>4. Append(Front(rem[p].stack), g) \in Seq(Frames)
  BY <1>1, <1>2, <1>3, Replaced DEF Processes
<1>5. /\ q \in Processes /\ q.stack = Append(Front(rem[p].stack), g)
      /\ q.did = rem[p].did \cup {f.mod} /\ q.ret = rem[p].ret
  BY <1>2, <1>3, <1>4 DEF Processes
<1> HIDE DEF q
<1>6. GoesOn(p, rem[p], g, q.did)
  BY <1>1, <1>2, <1>3, <1>5 DEF GoesOn
<1>7. Honest(p, q)
  BY <1>1, <1>2, <1>3, <1>5, <1>6, HonestContinue
<1> QED
  BY <1>1, <1>5, <1>7, OneMoves

\* ... UnusedDeps ends with the error of its own module, whatever became of the others.
LEMMA UnusedDepsStep == ASSUME IInv, NEW p \in Remover, UnusedDeps(p) PROVE IInv'
<1> DEFINE f == Frame(p)
           g == [f EXCEPT !.i = @ + 1]
           d == Deps[f.mod][g.i]
           c == RemoveFrame(d)
<1>1. rem[p].stack # <<>> /\ f.fn = "remove" /\ f.at = "unused"
  BY DEF UnusedDeps, In
<1>2. f \in Frames /\ f = Top(rem[p])
  BY <1>1, Running
<1>3. f.mod \in Mod /\ f.err \in Errors /\ f.i \in Nat /\ f.i <= Len(Deps[f.mod])
  BY <1>1, <1>2 DEF Frames
<1>4. Claims(p) => /\ Len(rem[p].stack) # 1
                   /\ Len(rem[p].stack) = 2 /\ rem[p].stack[1].at = "removed" /\ f.err = "0" =>
                        RemoveTarget[p] \in rem[p].did
  BY <1>1, InRemove
<1>5. CASE f.i = Len(Deps[f.mod])
  <2>1. Return(p, f.err)
    BY <1>5 DEF UnusedDeps
  <2> QED
    BY <1>1, <1>3, <1>4, <2>1, Returns
<1>6. CASE f.i # Len(Deps[f.mod])
  <2>1. Deps[f.mod] \in Seq(Mod) /\ Len(Deps[f.mod]) \in Nat
    BY <1>3, DepsClosed, LenProperties
  <2>2. f.i + 1 \in 1..Len(Deps[f.mod])
    BY <1>3, <1>6, <2>1
  <2>3. /\ g \in Frames /\ g.fn = "remove" /\ g.mod = f.mod /\ g.at = "unused"
        /\ g.err = f.err /\ g.i = f.i + 1
    BY <1>1, <1>2, <2>2 DEF Frames
  <2>4. d \in Mod
    BY <2>1, <2>2, <2>3, ElementOfSeq
  <2>5. c \in Frames
    BY <2>4, DepsClosed, LenProperties DEF Frames, RemoveFrame, Places, Errors
  <2>6. Call(p, g, c) \/ Continue(p, g)
    BY <1>6 DEF UnusedDeps
  <2> HIDE DEF g, c
  <2>7. GoesOn(p, rem[p], g, rem[p].did)
    BY <1>1, <1>2, <1>4, <2>3 DEF GoesOn
  <2> QED
    BY <1>1, <2>3, <2>5, <2>6, <2>7, Calls, Continues
<1> QED
  BY <1>5, <1>6

----------------------------------------------------------------------------
(* The invariant and the property.                                         *)

\* A process begins with the frame of its target and has removed nothing.
LEMMA InitInv == Init => IInv
<1> SUFFICES ASSUME Init PROVE IInv
  OBVIOUS
<1>1. ASSUME NEW p \in Remover
      PROVE  rem[p] \in Processes /\ Honest(p, rem[p])
  <2> DEFINE g == ModuleFrame(RemoveTarget[p], TRUE)
  <2>1. g \in Frames /\ g.fn = "module" /\ g.mod = RemoveTarget[p] /\ g.at = "state"
    BY RemoverType DEF Frames, ModuleFrame, Places, Errors
  <2>2. rem[p] = [stack |-> <<g>>, ret |-> "0", did |-> {}]
    BY DEF Init, RemoveInit
  <2> HIDE DEF g
  <2>3. <<g>> \in Seq(Frames) /\ Len(<<g>>) = 1 /\ <<g>>[1] = g /\ <<g>> # <<>>
    BY <2>1
  <2>4. rem[p] \in Processes
    BY <2>2, <2>3 DEF Processes, Errors
  <2>5. Honest(p, rem[p])
    BY <2>1, <2>2, <2>3 DEF Honest
  <2> QED
    BY <2>4, <2>5
<1>2. rem \in [Remover -> Processes]
  BY <1>1 DEF Init, RemoveInit
<1> QED
  BY <1>1, <1>2 DEF IInv

\* Each step of each process keeps the invariant.
LEMMA NextInv == IInv /\ [Next]_vars => IInv'
<1> SUFFICES ASSUME IInv, [Next]_vars PROVE IInv'
  OBVIOUS
<1>1. CASE Next
  <2>1. PICK p \in Remover : RemoveStep(p)
    BY <1>1 DEF Next
  <2>2. CASE State(p)
    BY <2>2, StateStep
  <2>3. CASE Stat(p)
    BY <2>3, StatStep
  <2>4. CASE PostDeps(p)
    BY <2>4, PostDepsStep
  <2>5. CASE HardDeps(p)
    BY <2>5, HardDepsStep
  <2>6. CASE Usage(p)
    BY <2>6, UsageStep
  <2>7. CASE RemoveModule(p)
    BY <2>7, RemoveModuleStep
  <2>8. CASE \E ending \in RemoveEndings : RunRemoveCommand(p, ending)
    BY <2>8, CommandStep
  <2>9. CASE Removed(p)
    BY <2>9, RemovedStep
  <2>10. CASE PreDeps(p)
    BY <2>10, PreDepsStep
  <2>11. CASE DeleteDryRun(p)
    BY <2>11, DryRunStep
  <2>12. CASE DeleteRefused(p)
    BY <2>12, RefusedStep
  <2>13. CASE DeleteStarts(p)
    BY <2>13, StartsStep
  <2>14. CASE DeleteEnds(p)
    BY <2>14, EndsStep
  <2>15. CASE UnusedDeps(p)
    BY <2>15, UnusedDepsStep
  <2> QED
    BY <2>1, <2>2, <2>3, <2>4, <2>5, <2>6, <2>7, <2>8, <2>9, <2>10, <2>11, <2>12,
       <2>13, <2>14, <2>15 DEF RemoveStep
<1>2. CASE UNCHANGED vars
  BY <1>2 DEF IInv, vars, Honest
<1> QED
  BY <1>1, <1>2

\* IInv is an invariant of the system.
THEOREM Invariance == Spec => []IInv
<1> QED
  BY InitInv, NextInv, PTL DEF Spec

\* A process that has ended with success, that was called with --first-time and not
\* told to pretend or to leave it to a command, has itself removed its target: the
\* errors of rmmod_do_remove_module reach the exit status past all that the recursion
\* does in between.
THEOREM FirstTimeRemovers == Spec => []FirstTimeRemoves
<1>1. IInv => FirstTimeRemoves
  BY DEF IInv, Honest, FirstTimeRemoves, Exited, Exit
<1> QED
  BY <1>1, Invariance, PTL
----------------------------------------------------------------------------
(* Dependencies that nobody uses any more.                                 *)

\* The frame g of process q will come to the dependency d: it is about to delete
\* it, or has it among the dependencies it has still to look at.
Owes(q, g, d) ==
  /\ ~Opt(q, "dry_run") /\ g.fn = "remove"
  /\ \/ g.at = "delete" /\ g.mod = d
     \/ g.at = "unused" /\ \E i \in 1..Len(Deps[g.mod]) : i > g.i /\ Deps[g.mod][i] = d

Owed(q, s, d) == \E k \in 1..Len(s) : Owes(q, s[k], d)

\* A dry run gets no further than delete_module, and dependencies are looked at
\* from the first.
FrameOk(q, g) ==
  g.fn = "remove" /\ g.at \in {"going", "unused"} =>
    ~Opt(q, "dry_run") /\ (g.at = "going" => g.i = 0)

StackOk(q, s) == \A k \in 1..Len(s) : FrameOk(q, s[k])

Settled(d) == Loaded(d) => Refcnt(d) > 0

\* Some process is in delete_module of d.
Removing(d) == \E q \in Remover : In(q, "remove", "going") /\ Frame(q).mod = d

\* The dependency d is gone or in use, or it is going, or somebody will see to it.
Answered(d) ==
  Settled(d) \/ kernel[d] = "going" \/ \E q \in Remover : Owed(q, rem[q].stack, d)

\* The second inductive invariant
Cleaning ==
  /\ kernel \in [Mod -> States \ {"coming"}]
  /\ \A q \in Remover : StackOk(q, rem[q].stack)
  /\ \A d \in Mod : kernel[d] = "going" => Removing(d)
  /\ \A q \in Remover : \A m \in rem[q].did : \A d \in DepSet(m) : Answered(d)
\* A sequence of elements of S is one of elements of a larger set.
LEMMA Wider ==
  ASSUME NEW S, NEW T, S \subseteq T, NEW s \in Seq(S)
  PROVE  s \in Seq(T)
<1>1. Len(s) \in Nat /\ \A k \in 1..Len(s) : s[k] \in T
  BY ElementOfSeq
<1> QED BY <1>1

\* The top f of a stack goes on as g.
LEMMA TopGoesOn ==
  ASSUME NEW s \in Seq(Frames), s # <<>>, NEW g, NEW q
  PROVE  LET t == Append(Front(s), g)
         IN  /\ t \in Seq(Frames \cup {g})
             /\ StackOk(q, s) /\ FrameOk(q, g) => StackOk(q, t)
             /\ \A d : Owes(q, g, d) => Owed(q, t, d)
             /\ \A d : Owed(q, s, d) => Owed(q, t, d) \/ Owes(q, Last(s), d)
<1> DEFINE t == Append(Front(s), g)
           F == Frames \cup {g}
<1>1. s \in Seq(F) /\ g \in F
  BY Wider
<1> HIDE DEF F
<1>2. /\ Len(s) \in Nat \ {0} /\ Last(s) = s[Len(s)]
      /\ t \in Seq(F) /\ Len(t) = Len(s)
      /\ \A k \in 1..Len(s) : t[k] = IF k = Len(s) THEN g ELSE s[k]
  BY <1>1, Replaced, Popped
<1>3. StackOk(q, s) /\ FrameOk(q, g) => StackOk(q, t)
  <2> HIDE DEF t
  <2> QED BY <1>2 DEF StackOk
<1> HIDE DEF t
<1>4. ASSUME NEW d, Owes(q, g, d) PROVE Owed(q, t, d)
  <2>1. Len(s) \in 1..Len(t) /\ t[Len(s)] = g
    BY <1>2
  <2> QED BY <1>4, <2>1 DEF Owed
<1>5. ASSUME NEW d, Owed(q, s, d) PROVE Owed(q, t, d) \/ Owes(q, Last(s), d)
  <2>1. PICK k \in 1..Len(s) : Owes(q, s[k], d)
    BY <1>5 DEF Owed
  <2>2. CASE k = Len(s)
    BY <1>2, <2>1, <2>2
  <2>3. CASE k # Len(s)
    <3>1. k \in 1..Len(t) /\ t[k] = s[k]
      BY <1>2, <2>3
    <3> QED BY <2>1, <3>1 DEF Owed
  <2> QED BY <2>2, <2>3
<1> QED BY <1>2, <1>3, <1>4, <1>5 DEF t, F

\* It calls c.
LEMMA TopCalls ==
  ASSUME NEW s \in Seq(Frames), s # <<>>, NEW g, NEW c, NEW q
  PROVE  LET t == Append(Front(s), g) \o <<c>>
         IN  /\ StackOk(q, s) /\ FrameOk(q, g) /\ FrameOk(q, c) => StackOk(q, t)
             /\ \A d : Owes(q, g, d) \/ Owes(q, c, d) => Owed(q, t, d)
             /\ \A d : Owed(q, s, d) => Owed(q, t, d) \/ Owes(q, Last(s), d)
<1> DEFINE u == Append(Front(s), g)
           t == u \o <<c>>
           F == (Frames \cup {g}) \cup {c}
<1>1. /\ u \in Seq(Frames \cup {g})
      /\ StackOk(q, s) /\ FrameOk(q, g) => StackOk(q, u)
      /\ \A d : Owes(q, g, d) => Owed(q, u, d)
      /\ \A d : Owed(q, s, d) => Owed(q, u, d) \/ Owes(q, Last(s), d)
  BY TopGoesOn
<1> HIDE DEF u
<1>2. u \in Seq(F) /\ c \in F
  BY <1>1, Wider
<1> HIDE DEF F
<1>3. /\ Len(u) \in Nat /\ Len(t) = Len(u) + 1
      /\ \A k \in 1..Len(u) : t[k] = u[k]
      /\ t[Len(u) + 1] = c
  BY <1>2, Pushed, LenProperties
<1> HIDE DEF t
<1>4. StackOk(q, u) /\ FrameOk(q, c) => StackOk(q, t)
  BY <1>3 DEF StackOk
<1>5. ASSUME NEW d, Owes(q, c, d) PROVE Owed(q, t, d)
  <2>1. Len(u) + 1 \in 1..Len(t)
    BY <1>3
  <2> QED BY <1>3, <1>5, <2>1 DEF Owed
<1>6. ASSUME NEW d, Owed(q, u, d) PROVE Owed(q, t, d)
  <2>1. PICK k \in 1..Len(u) : Owes(q, u[k], d)
    BY <1>6 DEF Owed
  <2>2. k \in 1..Len(t) /\ t[k] = u[k]
    BY <1>3
  <2> QED BY <2>1, <2>2 DEF Owed
<1> QED BY <1>1, <1>4, <1>5, <1>6 DEF t, u

\* It returns.
LEMMA TopReturns ==
  ASSUME NEW s \in Seq(Frames), s # <<>>, NEW q
  PROVE  /\ StackOk(q, s) => StackOk(q, Front(s))
         /\ \A d : Owed(q, s, d) => Owed(q, Front(s), d) \/ Owes(q, Last(s), d)
<1> DEFINE t == Front(s)
<1>1. /\ Len(s) \in Nat \ {0} /\ Last(s) = s[Len(s)]
      /\ Len(t) = Len(s) - 1 /\ \A k \in 1..Len(s) - 1 : t[k] = s[k]
  BY Popped
<1> HIDE DEF t
<1>2. StackOk(q, s) => StackOk(q, t)
  BY <1>1 DEF StackOk
<1>3. ASSUME NEW d, Owed(q, s, d) PROVE Owed(q, t, d) \/ Owes(q, Last(s), d)
  <2>1. PICK k \in 1..Len(s) : Owes(q, s[k], d)
    BY <1>3 DEF Owed
  <2>2. CASE k = Len(s)
    BY <1>1, <2>1, <2>2
  <2>3. CASE k # Len(s)
    <3>1. k \in 1..Len(t) /\ t[k] = s[k]
      BY <1>1, <2>3
    <3> QED BY <2>1, <3>1 DEF Owed
  <2> QED BY <2>2, <2>3
<1> QED BY <1>2, <1>3 DEF t
----------------------------------------------------------------------------
(* What the kernel's table and one process change.                         *)

\* A count of users is a number, and positive when there is one.
LEMMA Counts ==
  ASSUME NEW d \in Mod
  PROVE  Refcnt(d) \in Nat
<1> DEFINE U == {j \in Mod : Loaded(j) /\ d \in Uses[j]}
<1>1. IsFiniteSet(U)
  BY ModFinite, FS_Subset
<1> HIDE DEF U
<1>2. Cardinality(U) \in Nat
  BY <1>1, FS_CardinalityType
<1> QED BY <1>2 DEF Refcnt, U

\* The count of d changes only with the modules that use it.
LEMMA SameUsers ==
  ASSUME NEW d \in Mod, \A j \in Mod : d \in Uses[j] => (Loaded(j)' <=> Loaded(j))
  PROVE  Refcnt(d)' = Refcnt(d)
<1>1. {j \in Mod : Loaded(j)' /\ d \in Uses[j]} = {j \in Mod : Loaded(j) /\ d \in Uses[j]}
  OBVIOUS
<1> QED BY <1>1 DEF Refcnt

\* A module u that d is not used by goes away.
LEMMA StaysSettled ==
  ASSUME kernel \in [Mod -> States], NEW u \in Mod, DeleteModuleEnd(u),
         NEW d \in Mod, d \notin Uses[u], Settled(d)
  PROVE  Settled(d)'
<1>1. \A j \in Mod : kernel'[j] = IF j = u THEN "absent" ELSE kernel[j]
  BY DEF DeleteModuleEnd
<1>2. Refcnt(d)' = Refcnt(d)
  <2>1. \A j \in Mod : d \in Uses[j] => (Loaded(j)' <=> Loaded(j))
    BY <1>1 DEF Loaded
  <2> QED BY <2>1, SameUsers
<1>3. Loaded(d)' => Loaded(d)
  BY <1>1 DEF Loaded
<1> QED BY <1>2, <1>3 DEF Settled

\* Removals that are under way in other processes stay so.
LEMMA StillRemoving ==
  ASSUME IInv, NEW p \in Remover, NEW q, SetRem(p, q), NEW d, Removing(d),
         ~(In(p, "remove", "going") /\ Frame(p).mod = d)
  PROVE  Removing(d)'
<1>1. \A x \in Remover : x # p => rem'[x] = rem[x]
  BY DEF IInv, SetRem
<1>2. PICK x \in Remover : In(x, "remove", "going") /\ Frame(x).mod = d
  BY DEF Removing
<1>3. rem'[x] = rem[x]
  BY <1>1, <1>2
<1>4. In(x, "remove", "going")' /\ Frame(x)'.mod = d
  BY <1>2, <1>3 DEF In, Frame
<1> QED BY <1>4 DEF Removing

\* What one process owes, another does not take off it.
LEMMA StillOwed ==
  ASSUME IInv, NEW p \in Remover, NEW q, SetRem(p, q), NEW d,
         \E x \in Remover : Owed(x, rem[x].stack, d), ~Owed(p, rem[p].stack, d) \/ Owed(p, q.stack, d)
  PROVE  \E x \in Remover : Owed(x, rem'[x].stack, d)
<1>1. \A x \in Remover : rem'[x] = IF x = p THEN q ELSE rem[x]
  BY DEF IInv, SetRem
<1>2. PICK x \in Remover : Owed(x, rem[x].stack, d)
  OBVIOUS
<1>3. CASE x = p
  BY <1>1, <1>2, <1>3
<1>4. CASE x # p
  BY <1>1, <1>2, <1>4
<1> QED BY <1>3, <1>4

\* A step that leaves the kernel alone
LEMMA CleanQuiet ==
  ASSUME IInv, Cleaning, NEW p \in Remover, NEW q, SetRem(p, q), q.did = rem[p].did, UNCHANGED kernel,
         ~In(p, "remove", "going"), StackOk(p, q.stack),
         \A d \in Mod : Owed(p, rem[p].stack, d) =>
           Owed(p, q.stack, d) \/ Settled(d) \/ kernel[d] = "going"
  PROVE  Cleaning'
<1>1. \A x \in Remover : rem'[x] = IF x = p THEN q ELSE rem[x]
  BY DEF IInv, SetRem
<1>2. kernel' \in [Mod -> States \ {"coming"}]
  BY DEF Cleaning
<1>3. \A x \in Remover : StackOk(x, rem'[x].stack)
  BY <1>1 DEF Cleaning
<1>4. ASSUME NEW d \in Mod, kernel'[d] = "going" PROVE Removing(d)'
  <2>1. Removing(d)
    BY <1>4 DEF Cleaning
  <2> QED BY <2>1, StillRemoving
<1>5. ASSUME NEW x \in Remover, NEW m \in rem'[x].did, NEW d \in DepSet(m)
      PROVE  Answered(d)'
  <2>1. m \in rem[x].did
    BY <1>1
  <2>2. d \in Mod
    <3>1. m \in Mod
      BY <2>1 DEF IInv, Processes
    <3>2. Deps[m] \in Seq(Mod)
      BY <3>1, DepsClosed
    <3> QED BY <3>2, ElementOfSeq DEF DepSet
  <2>3. Answered(d)
    BY <2>1 DEF Cleaning
  <2>4. Settled(d) => Settled(d)'
    BY <2>2 DEF Settled, Loaded, Refcnt
  <2>5. CASE Settled(d) \/ kernel[d] = "going"
    BY <2>4, <2>5 DEF Answered
  <2>6. CASE (\E y \in Remover : Owed(y, rem[y].stack, d)) /\ ~Settled(d) /\ kernel[d] # "going"
    <3>1. ~Owed(p, rem[p].stack, d) \/ Owed(p, q.stack, d)
      BY <2>2, <2>6
    <3>2. \E y \in Remover : Owed(y, rem'[y].stack, d)
      BY <2>6, <3>1, StillOwed
    <3> QED BY <3>2 DEF Answered
  <2> QED BY <2>3, <2>5, <2>6 DEF Answered
<1> QED BY <1>2, <1>3, <1>4, <1>5 DEF Cleaning

\* Dependencies are modules.
LEMMA DepsAreModules ==
  ASSUME NEW m \in Mod
  PROVE  /\ Deps[m] \in Seq(Mod) /\ Len(Deps[m]) \in Nat
         /\ \A i \in 1..Len(Deps[m]) : Deps[m][i] \in Mod
         /\ DepSet(m) \subseteq Mod
<1>1. Deps[m] \in Seq(Mod)
  BY DepsClosed
<1> QED BY <1>1, ElementOfSeq, LenProperties DEF DepSet

\* rmmod_do_module owes nothing itself: wherever it goes on, whatever it calls, and
\* when it returns.
LEMMA CleanModule ==
  ASSUME IInv, Cleaning, NEW p \in Remover, rem[p].stack # <<>>, Frame(p).fn = "module",
         UNCHANGED kernel,
         \/ \E g : g.fn = "module" /\ Continue(p, g)
         \/ \E g, c : /\ g.fn = "module" /\ c.at \notin {"going", "unused"}
                      /\ Call(p, g, c)
         \/ \E err : Return(p, err)
  PROVE  Cleaning'
<1> DEFINE s == rem[p].stack
<1>1. s \in Seq(Frames) /\ s # <<>> /\ Last(s) = Frame(p) /\ StackOk(p, s) /\ rem[p] \in Processes
  BY Running DEF Processes, Cleaning, Frame
<1>2. \A d : ~Owes(p, Last(s), d)
  BY <1>1 DEF Owes
<1>3. ~In(p, "remove", "going")
  BY DEF In
<1> HIDE DEF s
<1>4. ASSUME NEW g, g.fn = "module", Continue(p, g) PROVE Cleaning'
  <2> DEFINE q == [rem[p] EXCEPT !.stack = Append(Front(@), g)]
  <2>1. SetRem(p, q)
    BY <1>4 DEF Continue
  <2>2. q.stack = Append(Front(s), g) /\ q.did = rem[p].did
    BY <1>1 DEF s, Processes
  <2> HIDE DEF q
  <2>3. FrameOk(p, g)
    BY <1>4 DEF FrameOk
  <2>4. StackOk(p, q.stack) /\ \A d : Owed(p, s, d) => Owed(p, q.stack, d)
    BY <1>1, <1>2, <2>2, <2>3, TopGoesOn
  <2> QED BY <1>3, <2>1, <2>2, <2>4, CleanQuiet DEF s
<1>5. ASSUME NEW g, NEW c, g.fn = "module", c.at \notin {"going", "unused"}, Call(p, g, c)
      PROVE  Cleaning'
  <2> DEFINE q == [rem[p] EXCEPT !.stack = Append(Front(@), g) \o <<c>>]
  <2>1. SetRem(p, q)
    BY <1>5 DEF Call
  <2>2. q.stack = Append(Front(s), g) \o <<c>> /\ q.did = rem[p].did
    BY <1>1 DEF s, Processes
  <2> HIDE DEF q
  <2>3. FrameOk(p, g) /\ FrameOk(p, c)
    BY <1>5 DEF FrameOk
  <2>4. StackOk(p, q.stack) /\ \A d : Owed(p, s, d) => Owed(p, q.stack, d)
    BY <1>1, <1>2, <2>2, <2>3, TopCalls
  <2> QED BY <1>3, <2>1, <2>2, <2>4, CleanQuiet DEF s
<1>6. ASSUME NEW err, Return(p, err) PROVE Cleaning'
  <2> DEFINE q == [rem[p] EXCEPT !.stack = Front(@), !.ret = err]
  <2>1. SetRem(p, q)
    BY <1>6, Zenon DEF Return
  <2>2. q.stack = Front(s) /\ q.did = rem[p].did
    BY <1>1 DEF s, Processes
  <2> HIDE DEF q
  <2>3. StackOk(p, q.stack) /\ \A d : Owed(p, s, d) => Owed(p, q.stack, d)
    BY <1>1, <1>2, <2>2, TopReturns
  <2> QED BY <1>3, <2>1, <2>2, <2>3, CleanQuiet DEF s
<1> QED BY <1>4, <1>5, <1>6
\* The steps of rmmod_do_module but a remove command
LEMMA CleanModuleSteps ==
  ASSUME IInv, Cleaning, NEW p \in Remover,
         \/ State(p) \/ Stat(p) \/ PostDeps(p) \/ HardDeps(p) \/ Usage(p)
         \/ RemoveModule(p) \/ Removed(p) \/ PreDeps(p)
  PROVE  Cleaning'
<1> DEFINE f == Frame(p)
           On == \E g : g.fn = "module" /\ Continue(p, g)
           In2 == \E g, c : /\ g.fn = "module" /\ c.at \notin {"going", "unused"}
                            /\ Call(p, g, c)
           Out == \E err : Return(p, err)
<1>1. rem[p].stack # <<>> /\ f.fn = "module" /\ UNCHANGED kernel
  BY DEF State, Stat, PostDeps, HardDeps, Usage, RemoveModule, Removed, PreDeps, In
<1>2. f \in Frames
  BY <1>1, Running
<1>3. ASSUME NEW at, Goto(p, at) PROVE On
  <2>1. [f EXCEPT !.at = at, !.i = 0].fn = "module"
    BY <1>1, <1>2 DEF Frames
  <2> QED BY <1>3, <2>1 DEF Goto
<1>4. ASSUME NEW list,
             Call(p, [f EXCEPT !.i = @ + 1], ModuleFrame(list[Len(list) - f.i], FALSE))
      PROVE  In2
  <2> DEFINE g == [f EXCEPT !.i = @ + 1]
             c == ModuleFrame(list[Len(list) - f.i], FALSE)
  <2>1. Call(p, g, c)
    BY <1>4
  <2>2. g.fn = "module" /\ c.at = "state"
    BY <1>1, <1>2 DEF Frames, ModuleFrame
  <2> HIDE DEF g, c
  <2> QED BY <2>1, <2>2
<1>0. On \/ In2 \/ Out => Cleaning'
  BY <1>1, CleanModule
<1> SUFFICES On \/ In2 \/ Out
  BY <1>0
<1> HIDE DEF On, In2, Out
<1>5. CASE State(p) \/ Usage(p)
  BY <1>3, <1>5 DEF State, Usage, Out
<1>6. CASE Stat(p)
  BY <1>6 DEF Stat, Out
<1>7. CASE PostDeps(p)
  BY <1>3, <1>4, <1>7 DEF PostDeps, SoftDepsList
<1>8. CASE HardDeps(p)
  BY <1>3, <1>4, <1>8 DEF HardDeps, SoftDepsList, Out
<1>9. CASE RemoveModule(p)
  <2> DEFINE g == [f EXCEPT !.at = "removed"]
             c == RemoveFrame(f.mod)
  <2>1. Call(p, g, c)
    BY <1>9 DEF RemoveModule
  <2>2. g.fn = "module" /\ c.at = "delete"
    BY <1>1, <1>2 DEF Frames, RemoveFrame
  <2> HIDE DEF g, c
  <2> QED BY <2>1, <2>2 DEF In2
<1>10. CASE Removed(p)
  <2> DEFINE g == [f EXCEPT !.at = "pre", !.i = 0, !.err = rem[p].ret]
  <2>1. g.fn = "module"
    BY <1>1, <1>2 DEF Frames
  <2> QED BY <1>10, <2>1 DEF Removed, On, Out
<1>11. CASE PreDeps(p)
  BY <1>4, <1>11 DEF PreDeps, SoftDepsList, Out
<1> QED BY <1>5, <1>6, <1>7, <1>8, <1>9, <1>10, <1>11

\* Two steps of rmmod_do_remove_module before delete_module: a dry run returns, and a refused
\* module is in use, or not there, or going.
LEMMA CleanRefused ==
  ASSUME IInv, Cleaning, NEW p \in Remover, DeleteDryRun(p) \/ DeleteRefused(p)
  PROVE  Cleaning'
<1> DEFINE f == Frame(p)
           s == rem[p].stack
<1>1. /\ s # <<>> /\ f.fn = "remove" /\ f.at = "delete" /\ UNCHANGED kernel
      /\ ~In(p, "remove", "going")
  BY DEF DeleteDryRun, DeleteRefused, In
<1>2. /\ s \in Seq(Frames) /\ Last(s) = f /\ f \in Frames /\ f.mod \in Mod
      /\ StackOk(p, s) /\ rem[p] \in Processes
  BY <1>1, Running DEF Processes, Cleaning, Frame, Frames
<1>3. \A d : Owes(p, f, d) => d = f.mod /\ ~Opt(p, "dry_run")
  BY <1>1 DEF Owes
<1> HIDE DEF f, s
<1>4. CASE DeleteDryRun(p)
  <2> DEFINE q == [rem[p] EXCEPT !.stack = Front(@), !.ret = "0"]
  <2>1. SetRem(p, q) /\ Opt(p, "dry_run")
    BY <1>4, Zenon DEF DeleteDryRun, Return
  <2>2. q.stack = Front(s) /\ q.did = rem[p].did
    BY <1>2 DEF s, Processes
  <2> HIDE DEF q
  <2>3. StackOk(p, q.stack) /\ \A d : Owed(p, s, d) => Owed(p, q.stack, d)
    BY <1>1, <1>2, <1>3, <2>1, <2>2, TopReturns
  <2> QED BY <1>1, <2>1, <2>2, <2>3, CleanQuiet DEF s
<1>5. CASE DeleteRefused(p)
  <2> DEFINE g == [f EXCEPT !.at = "unused", !.err = DeleteModuleError(f.mod)]
             q == [rem[p] EXCEPT !.stack = Append(Front(@), g)]
  <2>1. SetRem(p, q) /\ ~Opt(p, "dry_run") /\ DeleteModuleError(f.mod) # "0"
    BY <1>5, Zenon DEF DeleteRefused, Continue, f
  <2>2. g.at = "unused"
    BY <1>2 DEF Frames
  <2> HIDE DEF g
  <2>3. q.stack = Append(Front(s), g) /\ q.did = rem[p].did
    BY <1>2 DEF s, Processes
  <2> HIDE DEF q
  <2>4. FrameOk(p, g)
    BY <2>1, <2>2 DEF FrameOk
  <2>5. StackOk(p, q.stack) /\ \A d : Owed(p, s, d) => Owed(p, q.stack, d) \/ d = f.mod
    BY <1>1, <1>2, <1>3, <2>3, <2>4, TopGoesOn
  <2>6. Settled(f.mod) \/ kernel[f.mod] = "going"
    <3>1. kernel[f.mod] \in States \ {"coming"}
      BY <1>2 DEF Cleaning
    <3>2. ~Loaded(f.mod) \/ Refcnt(f.mod) > 0 \/ kernel[f.mod] # "live"
      BY <2>1, Zenon DEF DeleteModuleError
    <3> QED BY <3>1, <3>2 DEF Settled, Loaded, States
  <2> QED BY <1>1, <2>1, <2>3, <2>5, <2>6, CleanQuiet DEF s
<1> QED BY <1>4, <1>5

\* The loop over the dependencies: one that nobody uses is taken up.
LEMMA CleanUnused ==
  ASSUME IInv, Cleaning, NEW p \in Remover, UnusedDeps(p)
  PROVE  Cleaning'
<1> DEFINE f == Frame(p)
           s == rem[p].stack
           n == Len(Deps[f.mod])
           g == [f EXCEPT !.i = @ + 1]
           e == Deps[f.mod][g.i]
           c == RemoveFrame(e)
<1>1. /\ s # <<>> /\ f.fn = "remove" /\ f.at = "unused" /\ UNCHANGED kernel
      /\ ~In(p, "remove", "going")
  BY DEF UnusedDeps, In
<1>2. /\ s \in Seq(Frames) /\ Last(s) = f /\ f \in Frames /\ f.mod \in Mod
      /\ StackOk(p, s) /\ rem[p] \in Processes
  BY <1>1, Running DEF Processes, Cleaning, Frame, Frames
<1>3. f.i \in Nat /\ n \in Nat /\ f.i <= n
  BY <1>1, <1>2, DepsAreModules DEF Frames
<1>4. ~Opt(p, "dry_run")
  <2>1. Len(s) \in 1..Len(s) /\ s[Len(s)] = f
    BY <1>1, <1>2, Popped
  <2>2. FrameOk(p, f)
    BY <1>2, <2>1 DEF StackOk
  <2> QED BY <1>1, <2>2 DEF FrameOk
<1>5. g.fn = "remove" /\ g.at = "unused" /\ g.mod = f.mod /\ g.i = f.i + 1
  BY <1>1, <1>2 DEF Frames
<1>6. c.fn = "remove" /\ c.at = "delete" /\ c.mod = e
  BY DEF RemoveFrame
<1>7. IF f.i = n THEN Return(p, f.err)
      ELSE IF Loaded(e) /\ Refcnt(e) = 0 THEN Call(p, g, c)
      ELSE Continue(p, g)
  BY Zenon DEF UnusedDeps
<1> HIDE DEF c, g
<1>8. ASSUME NEW d, Owes(p, f, d)
      PROVE  f.i # n /\ (Owes(p, g, d) \/ d = e)
  <2>1. PICK i \in 1..n : i > f.i /\ Deps[f.mod][i] = d
    BY <1>1, <1>8 DEF Owes
  <2>2. CASE i = f.i + 1
    BY <1>3, <1>5, <2>1, <2>2
  <2>3. CASE i # f.i + 1
    <3>1. i > g.i /\ f.i # n
      BY <1>3, <1>5, <2>1, <2>3
    <3> QED BY <1>4, <1>5, <2>1, <3>1 DEF Owes
  <2> QED BY <2>2, <2>3
<1>9. FrameOk(p, g) /\ FrameOk(p, c) /\ Owes(p, c, e)
  BY <1>4, <1>5, <1>6 DEF FrameOk, Owes
<1> HIDE DEF f, s, e
<1>10. CASE f.i = n
  <2> DEFINE q == [rem[p] EXCEPT !.stack = Front(@), !.ret = f.err]
  <2>1. SetRem(p, q)
    BY <1>7, <1>10, Zenon DEF Return
  <2>2. q.stack = Front(s) /\ q.did = rem[p].did
    BY <1>2 DEF s, Processes
  <2> HIDE DEF q
  <2>3. StackOk(p, q.stack) /\ \A d : Owed(p, s, d) => Owed(p, q.stack, d)
    BY <1>1, <1>2, <1>8, <1>10, <2>2, TopReturns
  <2> QED BY <1>1, <2>1, <2>2, <2>3, CleanQuiet DEF s
<1>11. CASE f.i # n /\ Loaded(e) /\ Refcnt(e) = 0
  <2> DEFINE q == [rem[p] EXCEPT !.stack = Append(Front(@), g) \o <<c>>]
  <2>1. SetRem(p, q)
    BY <1>7, <1>11, Zenon DEF Call
  <2>2. q.stack = Append(Front(s), g) \o <<c>> /\ q.did = rem[p].did
    BY <1>2 DEF s, Processes
  <2> HIDE DEF q
  <2>3. StackOk(p, q.stack) /\ \A d : Owed(p, s, d) => Owed(p, q.stack, d)
    BY <1>1, <1>2, <1>8, <1>9, <2>2, TopCalls
  <2> QED BY <1>1, <2>1, <2>2, <2>3, CleanQuiet DEF s
<1>12. CASE f.i # n /\ ~(Loaded(e) /\ Refcnt(e) = 0)
  <2> DEFINE q == [rem[p] EXCEPT !.stack = Append(Front(@), g)]
  <2>1. SetRem(p, q)
    BY <1>7, <1>12, Zenon DEF Continue
  <2>2. q.stack = Append(Front(s), g) /\ q.did = rem[p].did
    BY <1>2 DEF s, Processes
  <2> HIDE DEF q
  <2>3. StackOk(p, q.stack) /\ \A d : Owed(p, s, d) => Owed(p, q.stack, d) \/ d = e
    BY <1>1, <1>2, <1>8, <1>9, <2>2, TopGoesOn
  <2>4. Settled(e)
    <3>1. f.i + 1 \in 1..n
      BY <1>3, <1>12
    <3>2. e \in Mod
      BY <1>2, <1>5, <3>1, DepsAreModules DEF e
    <3>3. Refcnt(e) \in Nat
      BY <3>2, Counts
    <3> QED BY <1>12, <3>3 DEF Settled
  <2> QED BY <1>1, <2>1, <2>2, <2>3, <2>4, CleanQuiet DEF s
<1> QED BY <1>10, <1>11, <1>12
\* What is known of the process that makes a step
LEMMA Runner ==
  ASSUME IInv, Cleaning, NEW p \in Remover, rem[p].stack # <<>>
  PROVE  /\ rem[p].stack \in Seq(Frames) /\ Last(rem[p].stack) = Frame(p)
         /\ Frame(p) \in Frames /\ Frame(p).mod \in Mod
         /\ StackOk(p, rem[p].stack) /\ rem[p] \in Processes
<1>1. rem[p] \in Processes /\ Frame(p) \in Frames
  BY Running
<1>2. StackOk(p, rem[p].stack)
  BY DEF Cleaning
<1> QED BY <1>1, <1>2 DEF Processes, Frame, Frames

\* delete_module begins: the module is still counted as a user.
LEMMA CleanStarts ==
  ASSUME IInv, Cleaning, NEW p \in Remover, DeleteStarts(p)
  PROVE  Cleaning'
<1> DEFINE f == Frame(p)
           u == f.mod
           s == rem[p].stack
<1>0. s # <<>>
  BY DEF DeleteStarts, In
<1>2. /\ s \in Seq(Frames) /\ Last(s) = f /\ f \in Frames /\ f.mod \in Mod
      /\ StackOk(p, s) /\ rem[p] \in Processes /\ kernel \in [Mod -> States \ {"coming"}]
  BY <1>0, Runner DEF Cleaning
<1> DEFINE g == [f EXCEPT !.at = "going", !.i = 0]
           q == [rem[p] EXCEPT !.stack = Append(Front(@), g)]
<1>1. /\ s # <<>> /\ f.fn = "remove" /\ f.at = "delete" /\ ~Opt(p, "dry_run")
      /\ DeleteModuleError(u) = "0" /\ DeleteModuleBegin(u) /\ SetRem(p, q)
  BY Zenon DEF DeleteStarts, In, Goto, Continue
<1>3. g.fn = "remove" /\ g.mod = u /\ g.at = "going" /\ g.i = 0
  BY <1>1, <1>2 DEF Frames
<1>4. q.stack = Append(Front(s), g) /\ q.did = rem[p].did
  BY <1>2 DEF Processes
<1> HIDE DEF g, q
<1>5. FrameOk(p, g)
  BY <1>1, <1>3 DEF FrameOk
<1>6. \A d : Owes(p, f, d) => d = u
  BY <1>1 DEF Owes
<1>7. StackOk(p, q.stack) /\ \A d : Owed(p, s, d) => Owed(p, q.stack, d) \/ d = u
  BY <1>1, <1>2, <1>4, <1>5, <1>6, TopGoesOn
<1>8. \A x \in Remover : rem'[x] = IF x = p THEN q ELSE rem[x]
  BY <1>1 DEF IInv, SetRem
<1>9. Loaded(u)
  BY <1>1, Zenon DEF DeleteModuleError
<1>10. \A j \in Mod : kernel'[j] = IF j = u THEN "going" ELSE kernel[j]
  BY <1>1, <1>2 DEF DeleteModuleBegin
<1>11. \A j \in Mod : Loaded(j)' <=> Loaded(j)
  BY <1>9, <1>10 DEF Loaded
<1>12. \A d \in Mod : Settled(d) => Settled(d)'
  BY <1>11, SameUsers DEF Settled
<1> HIDE DEF f, u, s
<1>13. kernel' \in [Mod -> States \ {"coming"}]
  BY <1>1, <1>2 DEF DeleteModuleBegin, States
<1>14. \A x \in Remover : StackOk(x, rem'[x].stack)
  BY <1>7, <1>8 DEF Cleaning
<1>15. In(p, "remove", "going")' /\ Frame(p)'.mod = u
  <2>1. q.stack \in Seq(Frames \cup {g}) /\ q.stack # <<>> /\ Last(q.stack) = g
    <3> DEFINE F == Frames \cup {g}
    <3>1. s \in Seq(F) /\ g \in F
      BY <1>2, Wider
    <3> HIDE DEF F
    <3>2. /\ Len(s) \in Nat \ {0} /\ q.stack \in Seq(F) /\ Len(q.stack) = Len(s)
          /\ q.stack[Len(s)] = g
      BY <1>1, <1>4, <3>1, Replaced
    <3>3. q.stack # <<>>
      BY <3>2
    <3>4. Last(q.stack) = q.stack[Len(q.stack)]
      BY <3>2, <3>3, Popped
    <3> QED BY <3>2, <3>3, <3>4 DEF F
  <2>2. rem'[p] = q
    BY <1>8
  <2> QED BY <1>3, <2>1, <2>2 DEF In, Frame
<1>16. ASSUME NEW d \in Mod, kernel'[d] = "going" PROVE Removing(d)'
  <2>1. CASE d = u
    BY <1>15, <2>1 DEF Removing
  <2>2. CASE d # u
    <3>1. Removing(d)
      BY <1>10, <1>16, <2>2 DEF Cleaning
    <3>2. ~In(p, "remove", "going")
      BY <1>1 DEF In, f
    <3> QED BY <1>1, <3>1, <3>2, StillRemoving
  <2> QED BY <2>1, <2>2
<1>17. ASSUME NEW x \in Remover, NEW m \in rem'[x].did, NEW d \in DepSet(m)
       PROVE  Answered(d)'
  <2>1. m \in rem[x].did
    BY <1>4, <1>8
  <2>2. m \in Mod
    BY <2>1 DEF IInv, Processes
  <2>3. d \in Mod
    BY <2>2, DepsAreModules
  <2>4. Answered(d)
    BY <2>1 DEF Cleaning
  <2>5. CASE d = u
    BY <1>2, <1>10, <2>3, <2>5 DEF Answered
  <2>6. CASE Settled(d) \/ kernel[d] = "going"
    BY <1>10, <1>12, <2>3, <2>6 DEF Answered
  <2>7. CASE d # u /\ \E y \in Remover : Owed(y, rem[y].stack, d)
    <3>1. ~Owed(p, rem[p].stack, d) \/ Owed(p, q.stack, d)
      BY <1>7, <2>7 DEF s
    <3>2. \E y \in Remover : Owed(y, rem'[y].stack, d)
      BY <1>1, <2>7, <3>1, StillOwed
    <3> QED BY <3>2 DEF Answered
  <2> QED BY <2>4, <2>5, <2>6, <2>7 DEF Answered
<1> QED BY <1>13, <1>14, <1>16, <1>17 DEF Cleaning

\* A module u is gone: what it used is owed by the process that removed it.
LEMMA CleanGone ==
  ASSUME IInv, Cleaning, NEW p \in Remover, NEW q, SetRem(p, q), NEW u \in Mod, DeleteModuleEnd(u),
         In(p, "remove", "going") => Frame(p).mod = u,
         StackOk(p, q.stack), \A d \in Mod : Owed(p, rem[p].stack, d) => Owed(p, q.stack, d),
         \A d \in Uses[u] : Owed(p, q.stack, d),
         \/ q.did = rem[p].did
         \/ q.did = rem[p].did \cup {u} /\ \A d \in DepSet(u) : Owed(p, q.stack, d)
  PROVE  Cleaning'
<1>1. \A x \in Remover : rem'[x] = IF x = p THEN q ELSE rem[x]
  BY DEF IInv, SetRem
<1>2. kernel \in [Mod -> States \ {"coming"}] /\ kernel \in [Mod -> States]
  BY DEF Cleaning
<1>3. \A j \in Mod : kernel'[j] = IF j = u THEN "absent" ELSE kernel[j]
  BY <1>2 DEF DeleteModuleEnd
<1>4. kernel' \in [Mod -> States \ {"coming"}]
  BY <1>2 DEF DeleteModuleEnd, States
<1>5. \A x \in Remover : StackOk(x, rem'[x].stack)
  BY <1>1 DEF Cleaning
<1>6. ASSUME NEW d \in Mod, kernel'[d] = "going" PROVE Removing(d)'
  <2>1. d # u /\ Removing(d)
    BY <1>3, <1>6 DEF Cleaning
  <2> QED BY <2>1, StillRemoving
<1>7. ASSUME NEW d \in Mod, Answered(d) \/ Owed(p, q.stack, d) PROVE Answered(d)'
  <2>1. CASE d = u
    <3>1. Settled(d)'
      BY <1>3, <2>1 DEF Settled, Loaded
    <3> QED BY <3>1 DEF Answered
  <2>2. CASE Owed(p, q.stack, d)
    <3>1. rem'[p] = q
      BY <1>1
    <3> QED BY <2>2, <3>1 DEF Answered
  <2>3. CASE Settled(d) /\ d \notin Uses[u]
    BY <1>2, <2>3, StaysSettled DEF Answered
  <2>4. CASE kernel[d] = "going" /\ d # u
    BY <1>3, <2>4 DEF Answered
  <2>5. CASE \E y \in Remover : Owed(y, rem[y].stack, d)
    <3>1. \E y \in Remover : Owed(y, rem'[y].stack, d)
      BY <2>5, StillOwed
    <3> QED BY <3>1 DEF Answered
  <2> QED BY <1>7, <2>1, <2>2, <2>3, <2>4, <2>5 DEF Answered
<1>8. ASSUME NEW x \in Remover, NEW m \in rem'[x].did, NEW d \in DepSet(m)
      PROVE  Answered(d)'
  <2>1. m \in rem[x].did \/ (m = u /\ Owed(p, q.stack, d))
    BY <1>1
  <2>2. m \in Mod
    BY <2>1 DEF IInv, Processes
  <2>3. d \in Mod
    BY <2>2, DepsAreModules
  <2>4. Answered(d) \/ Owed(p, q.stack, d)
    BY <2>1 DEF Cleaning
  <2> QED BY <1>7, <2>3, <2>4
<1> QED BY <1>4, <1>5, <1>6, <1>8 DEF Cleaning

\* delete_module ends, and the loop over the dependencies begins.
LEMMA CleanEnds ==
  ASSUME IInv, Cleaning, NEW p \in Remover, DeleteEnds(p)
  PROVE  Cleaning'
<1> DEFINE f == Frame(p)
           u == f.mod
           s == rem[p].stack
<1>0. s # <<>>
  BY DEF DeleteEnds, In
<1>2. /\ s \in Seq(Frames) /\ Last(s) = f /\ f \in Frames /\ f.mod \in Mod
      /\ StackOk(p, s) /\ rem[p] \in Processes
  BY <1>0, Runner
<1> DEFINE g == [f EXCEPT !.at = "unused"]
           q == [rem[p] EXCEPT !.stack = Append(Front(@), g), !.did = @ \cup {u}]
<1>1. s # <<>> /\ f.fn = "remove" /\ f.at = "going" /\ DeleteModuleEnd(u) /\ SetRem(p, q)
  BY Zenon DEF DeleteEnds, In
<1>3. ~Opt(p, "dry_run") /\ f.i = 0
  <2>1. Len(s) \in 1..Len(s) /\ s[Len(s)] = f
    BY <1>1, <1>2, Popped
  <2>2. FrameOk(p, f)
    BY <1>2, <2>1 DEF StackOk
  <2> QED BY <1>1, <2>2 DEF FrameOk
<1>4. g.fn = "remove" /\ g.mod = u /\ g.at = "unused" /\ g.i = 0
  BY <1>1, <1>2, <1>3 DEF Frames
<1>5. q.stack = Append(Front(s), g) /\ q.did = rem[p].did \cup {u}
  BY <1>2 DEF Processes
<1> HIDE DEF g, q
<1>6. FrameOk(p, g) /\ \A d : ~Owes(p, f, d)
  BY <1>1, <1>3, <1>4 DEF FrameOk, Owes
<1>7. \A d \in DepSet(u) : Owes(p, g, d)
  <2> TAKE d \in DepSet(u)
  <2>1. PICK i \in 1..Len(Deps[u]) : Deps[u][i] = d
    BY DEF DepSet
  <2>2. i > g.i
    BY <1>4, <2>1
  <2> QED BY <1>3, <1>4, <2>1, <2>2 DEF Owes
<1>8. Uses[u] \subseteq DepSet(u)
  BY <1>2, DepsClosed
<1> HIDE DEF f, u, s
<1>9. /\ StackOk(p, q.stack)
      /\ \A d : Owed(p, s, d) => Owed(p, q.stack, d)
      /\ \A d \in DepSet(u) : Owed(p, q.stack, d)
  <2>1. StackOk(p, q.stack) /\ \A d : Owed(p, s, d) => Owed(p, q.stack, d)
    BY <1>1, <1>2, <1>5, <1>6, TopGoesOn
  <2>2. ASSUME NEW d \in DepSet(u) PROVE Owed(p, q.stack, d)
    <3>1. Owes(p, g, d)
      BY <1>7
    <3>2. Owed(p, Append(Front(s), g), d)
      BY <1>1, <1>2, <3>1, TopGoesOn
    <3> QED BY <1>5, <3>2
  <2> QED BY <2>1, <2>2
<1>10. In(p, "remove", "going") => Frame(p).mod = u
  BY DEF f, u
<1> QED BY <1>1, <1>2, <1>5, <1>8, <1>9, <1>10, CleanGone DEF s, u

\* Modules with a remove command that may be run use no other modules: what a command leaves
\* without users nobody looks at.
CommandsUseNothing ==
  \A p \in Remover : \A m \in Mod :
    HasCommand(p, m) /\ ~Opt(p, "dry_run") => Uses[m] = {}

\* A remove command ends.
LEMMA CleanCommand ==
  ASSUME IInv, Cleaning, CommandsUseNothing, NEW p \in Remover,
         NEW ending \in RemoveEndings, RunRemoveCommand(p, ending)
  PROVE  Cleaning'
<1> DEFINE f == Frame(p)
           u == f.mod
           s == rem[p].stack
<1>0. s # <<>>
  BY DEF RunRemoveCommand, In
<1>3. /\ s \in Seq(Frames) /\ Last(s) = f /\ f \in Frames /\ f.mod \in Mod
      /\ StackOk(p, s) /\ rem[p] \in Processes
  BY <1>0, Runner
<1> DEFINE g == [f EXCEPT !.at = "removed"]
           q == [rem[p] EXCEPT !.stack = Append(Front(@), g),
                               !.ret = IF Opt(p, "dry_run") THEN "0" ELSE ending]
<1>1. /\ s # <<>> /\ f.fn = "module" /\ ~In(p, "remove", "going") /\ SetRem(p, q)
      /\ HasCommand(p, u)
  BY Zenon DEF RunRemoveCommand, In
<1>2. \/ DeleteModuleEnd(u) /\ ~Opt(p, "dry_run")
      \/ UNCHANGED kernel
  BY Zenon DEF RunRemoveCommand
<1>4. g.fn = "module"
  BY <1>1, <1>3 DEF Frames
<1>5. q.stack = Append(Front(s), g) /\ q.did = rem[p].did
  BY <1>3 DEF Processes
<1> HIDE DEF g, q
<1>6. FrameOk(p, g) /\ \A d : ~Owes(p, f, d)
  BY <1>1, <1>4 DEF FrameOk, Owes
<1> HIDE DEF f, u, s
<1>7. StackOk(p, q.stack) /\ \A d : Owed(p, s, d) => Owed(p, q.stack, d)
  BY <1>1, <1>3, <1>5, <1>6, TopGoesOn
<1>8. CASE UNCHANGED kernel
  BY <1>1, <1>5, <1>7, <1>8, CleanQuiet DEF s
<1>9. CASE DeleteModuleEnd(u) /\ ~Opt(p, "dry_run")
  <2>1. u \in Mod
    BY <1>3 DEF u
  <2>2. Uses[u] = {}
    BY <1>1, <1>9, <2>1 DEF CommandsUseNothing
  <2> QED BY <1>1, <1>5, <1>7, <1>9, <2>1, <2>2, CleanGone DEF s
<1> QED BY <1>2, <1>8, <1>9

\* Nobody has removed anything yet, and nothing is going.
LEMMA CleanInit == Init => Cleaning
<1> SUFFICES ASSUME Init PROVE Cleaning
  OBVIOUS
<1>1. kernel \in [Mod -> States \ {"coming", "going"}]
  BY DEF Init, KernelInit, States
<1>2. ASSUME NEW q \in Remover PROVE StackOk(q, rem[q].stack) /\ rem[q].did = {}
  <2> DEFINE g == ModuleFrame(RemoveTarget[q], TRUE)
  <2>1. rem[q] = [stack |-> <<g>>, ret |-> "0", did |-> {}] /\ g.fn = "module"
    BY DEF Init, RemoveInit, ModuleFrame
  <2> HIDE DEF g
  <2>2. rem[q].stack = <<g>> /\ rem[q].did = {}
    BY <2>1
  <2>3. StackOk(q, <<g>>)
    BY <2>1 DEF StackOk, FrameOk
  <2> QED BY <2>2, <2>3
<1> QED BY <1>1, <1>2 DEF Cleaning

\* Each step of each process keeps it.
LEMMA CleanNext ==
  ASSUME CommandsUseNothing, IInv, Cleaning, [Next]_vars
  PROVE  Cleaning'
<1>1. CASE Next
  <2>1. PICK p \in Remover : RemoveStep(p)
    BY <1>1 DEF Next
  <2>2. CASE \E ending \in RemoveEndings : RunRemoveCommand(p, ending)
    BY <2>2, CleanCommand
  <2>3. CASE DeleteStarts(p)
    BY <2>3, CleanStarts
  <2>4. CASE DeleteEnds(p)
    BY <2>4, CleanEnds
  <2>5. CASE UnusedDeps(p)
    BY <2>5, CleanUnused
  <2>6. CASE DeleteDryRun(p) \/ DeleteRefused(p)
    BY <2>6, CleanRefused
  <2>7. CASE \/ State(p) \/ Stat(p) \/ PostDeps(p) \/ HardDeps(p) \/ Usage(p)
             \/ RemoveModule(p) \/ Removed(p) \/ PreDeps(p)
    BY <2>7, CleanModuleSteps
  <2> QED BY <2>1, <2>2, <2>3, <2>4, <2>5, <2>6, <2>7 DEF RemoveStep
<1>2. CASE UNCHANGED vars
  BY <1>2 DEF vars, Cleaning, Answered, Settled, Loaded, Refcnt, Removing, In, Frame
<1> QED BY <1>1, <1>2

\* rmmod_do_remove_module: when all processes are done, whichever of them took the last user of
\* a dependency away, the dependencies of what was removed are gone or in use, if no remove
\* command took a user away in their place.
THEOREM UnusedAreGone == CommandsUseNothing => (Spec => []UnusedDepsGone)
<1> SUFFICES ASSUME CommandsUseNothing PROVE Spec => []UnusedDepsGone
  OBVIOUS
<1>1. IInv /\ Cleaning => UnusedDepsGone
  <2> SUFFICES ASSUME IInv, Cleaning, \A p \in Remover : Exited(p),
                      NEW p \in Remover, NEW m \in rem[p].did, NEW d \in DepSet(m), Loaded(d)
               PROVE  Refcnt(d) > 0
    BY DEF UnusedDepsGone
  <2>1. Answered(d)
    BY DEF Cleaning
  <2>2. kernel[d] # "going"
    <3>1. m \in Mod
      BY DEF IInv, Processes
    <3>2. d \in Mod
      BY <3>1, DepsAreModules
    <3>3. ~Removing(d)
      BY DEF Removing, In, Exited
    <3> QED BY <3>2, <3>3 DEF Cleaning
  <2>3. \A q \in Remover : ~Owed(q, rem[q].stack, d)
    <3> TAKE q \in Remover
    <3>1. Len(rem[q].stack) = 0
      BY DEF Exited
    <3> QED BY <3>1 DEF Owed
  <2> QED BY <2>1, <2>2, <2>3 DEF Answered, Settled
<1>2. IInv /\ Cleaning /\ [Next]_vars => (IInv /\ Cleaning)'
  BY NextInv, CleanNext
<1> QED BY <1>1, <1>2, InitInv, CleanInit, PTL DEF Spec
=============================================================================
