---------------------------- MODULE TaskLogic_proofs ----------------------------
(***************************************************************************)
(* What a task does with the failures below it, for every tree of tasks,   *)
(* every chart and every selection of tags.  The properties of TaskLogic   *)
(* speak of the history of a run that is done; the invariants here say, of *)
(* every state on the way, which frame of the stack still answers for what *)
(* is in the history.                                                      *)
(***************************************************************************)
EXTENDS TaskLogic, SequenceTheorems, TLAPS

Results == [changed : BOOLEAN, failed : BOOLEAN, skipped : BOOLEAN, lost : BOOLEAN]
Registers == {t.register : t \in Tasks}
Scopes == [block_failed : BOOLEAN, regs : UNION {[S -> Results] : S \in SUBSET Registers}]
Parts == {"start", "item", "attempt", "judge", "end"} \cup Sequences

Frames == [task : Tasks, part : Parts, pos : Nat, item : Nat \ {0}, left : Nat,
           res : Results, failed : BOOLEAN, saved : Scopes]

Places == [name : {t.name : t \in Tasks}, part : Parts, item : Nat \ {0}]
Entries == [what : {"enter", "item", "leave"}, path : Seq(Places) \ {<<>>}, res : Results]

Shape(f) ==
  /\ f.part \in {"item", "attempt", "judge"} => f.task.kind = "module"
  /\ f.part \in {"block", "rescue", "always"} => f.task.kind = "block"
  /\ f.part = "chart" => f.task.kind = "chart" /\ f.task.ref \in DOMAIN Charts
  /\ f.part = "start" => f.res = Ok /\ f.item = 1
  /\ f.part \in {"item", "attempt"} /\ ~f.task.looped => f.res = Ok /\ f.item = 1

(* The frames are of tasks, and each is of the task the frame below it has *)
(* come to.                                                                *)
TypeInv ==
  /\ stack \in Seq(Frames) /\ vars \in Scopes /\ log \in Seq(Entries)
  /\ \A i \in 1 .. Len(stack) : Shape(stack[i])
  /\ \A i \in 1 .. Len(stack) - 1 :
       /\ stack[i].part \in Sequences
       /\ stack[i].pos \in DOMAIN Children(stack[i])
       /\ Children(stack[i])[stack[i].pos] = stack[i + 1].task

-----------------------------------------------------------------------------
(* A step that changes the innermost frame only.                           *)
LEMMA Gone ==
  ASSUME NEW f \in Frames, stack \in Seq(Frames), stack # <<>>
  PROVE  /\ Len(stack) \in Nat \ {0} /\ Top = stack[Len(stack)] /\ Top \in Frames
         /\ Go(f) \in Seq(Frames) /\ Len(Go(f)) = Len(stack)
         /\ Go(f)[Len(stack)] = f
         /\ \A i \in 1 .. Len(stack) - 1 : Go(f)[i] = stack[i]
BY DEF Go, Top, Last

(* A step that begins a task below the innermost frame.                    *)
LEMMA Pushed ==
  ASSUME NEW f \in Frames, NEW g \in Frames, stack \in Seq(Frames), stack # <<>>
  PROVE  LET s == Append(Go(f), g)
         IN /\ s \in Seq(Frames) /\ Len(s) = Len(stack) + 1
            /\ s[Len(stack)] = f /\ s[Len(stack) + 1] = g
            /\ \A i \in 1 .. Len(stack) - 1 : s[i] = stack[i]
BY Gone

(* A step that ends the innermost task and changes the frame below.        *)
LEMMA Popped ==
  ASSUME NEW f \in Frames, stack \in Seq(Frames), stack # <<>>, Len(stack) # 1
  PROVE  LET s == Append(SubSeq(stack, 1, Len(stack) - 2), f)
         IN /\ s \in Seq(Frames) /\ Len(s) = Len(stack) - 1
            /\ Len(stack) - 1 \in Nat \ {0}
            /\ s[Len(stack) - 1] = f
            /\ \A i \in 1 .. Len(stack) - 2 : s[i] = stack[i]
<1>0. Len(stack) \in Nat \ {0}
  BY EmptySeq
<1>1. Len(stack) \in Nat /\ Len(stack) >= 2
  <2>1. \A n \in Nat \ {0} : n # 1 => n >= 2
    OBVIOUS
  <2> QED
    BY <1>0, <2>1
<1> DEFINE s == SubSeq(stack, 1, Len(stack) - 2)
<1>2. s \in Seq(Frames) /\ Len(s) = Len(stack) - 2 /\ \A i \in 1 .. Len(stack) - 2 : s[i] = stack[i]
  <2>1. \A i \in 1 .. Len(stack) - 2 : stack[i] \in Frames
    BY <1>1
  <2>2. 1 \in Int /\ Len(stack) - 2 \in Int
    BY <1>1
  <2>3. /\ s \in Seq(Frames)
        /\ Len(s) = IF 1 <= Len(stack) - 2 THEN (Len(stack) - 2) - 1 + 1 ELSE 0
        /\ \A i \in 1 .. (Len(stack) - 2) - 1 + 1 : s[i] = stack[1 + i - 1]
    BY <2>1, <2>2, SubSeqProperties
  <2>4. \A i \in 1 .. Len(stack) - 2 : i \in 1 .. (Len(stack) - 2) - 1 + 1 /\ 1 + i - 1 = i
    BY <1>1
  <2>5. (IF 1 <= Len(stack) - 2 THEN (Len(stack) - 2) - 1 + 1 ELSE 0) = Len(stack) - 2
    <3>1. \A n \in Nat : n >= 2 => (IF 1 <= n - 2 THEN (n - 2) - 1 + 1 ELSE 0) = n - 2
      OBVIOUS
    <3> QED
      BY <1>1, <3>1
  <2> HIDE DEF s
  <2> QED
    BY <2>3, <2>4, <2>5
<1> HIDE DEF s
<1>3. /\ Append(s, f) \in Seq(Frames) /\ Len(Append(s, f)) = Len(stack) - 1
      /\ Append(s, f)[Len(stack) - 1] = f
      /\ \A i \in 1 .. Len(stack) - 2 : Append(s, f)[i] = stack[i]
  BY <1>1, <1>2
<1> QED
  BY <1>1, <1>3 DEF s

LEMMA ResultTypes ==
  /\ Ok \in Results /\ Failed \in Results /\ Lost \in Results /\ Skipped \in Results
  /\ Ok.changed = FALSE /\ Ok.failed = FALSE /\ Ok.lost = FALSE
  /\ Failed.changed = FALSE /\ Failed.failed = TRUE /\ Failed.lost = FALSE
  /\ Skipped.changed = FALSE /\ Skipped.failed = FALSE /\ Skipped.lost = FALSE /\ Skipped.skipped = TRUE
  /\ Fresh \in Scopes /\ Fresh.block_failed = FALSE
  /\ \A c, f, l \in BOOLEAN : Res(c, f, l) \in Results
<1>1. Fresh \in Scopes
  <2>1. <<>> \in UNION {[S -> Results] : S \in SUBSET Registers}
    <3>1. <<>> \in [{} -> Results]
      OBVIOUS
    <3> QED
      BY <3>1
  <2> QED
    BY <2>1 DEF Fresh, Scopes
<1> QED
  BY <1>1 DEF Ok, Failed, Lost, Skipped, Res, Results, Fresh

LEMMA RegisteredType ==
  ASSUME NEW t \in Tasks, NEW v \in Scopes, NEW r \in Results
  PROVE  Registered(t, v, r) \in Scopes /\ Registered(t, v, r).block_failed = v.block_failed
<1> DEFINE more == [x \in DOMAIN v.regs \cup {t.register} |-> IF x = t.register THEN r ELSE v.regs[x]]
<1>1. more \in UNION {[S -> Results] : S \in SUBSET Registers}
  <2>1. PICK S \in SUBSET Registers : v.regs \in [S -> Results]
    BY DEF Scopes
  <2>2. t.register \in Registers
    BY DEF Registers
  <2>3. more \in [S \cup {t.register} -> Results]
    BY <2>1, <2>2
  <2>4. S \cup {t.register} \in SUBSET Registers
    BY <2>1, <2>2
  <2> QED
    BY <2>3, <2>4
<1>2. Registered(t, v, r) = IF t.register = None THEN v ELSE [v EXCEPT !.regs = more]
  BY DEF Registered
<1> HIDE DEF more
<1> QED
  BY <1>1, <1>2 DEF Scopes

LEMMA TopFacts ==
  ASSUME TypeInv, stack # <<>>
  PROVE  /\ Len(stack) \in Nat \ {0} /\ Top = stack[Len(stack)] /\ Top \in Frames /\ Shape(Top)
         /\ Top.task \in Tasks /\ Top.res \in Results /\ Top.saved \in Scopes /\ Top.part \in Parts
         /\ Top.pos \in Nat /\ Top.left \in Nat /\ Top.item \in Nat \ {0} /\ Top.failed \in BOOLEAN
<1>1. stack \in Seq(Frames)
  BY DEF TypeInv
<1>2. Len(stack) \in Nat \ {0} /\ Len(stack) \in 1 .. Len(stack)
  BY <1>1
<1>3. Top = stack[Len(stack)]
  BY DEF Top, Last
<1>4. Top \in Frames /\ Shape(Top)
  BY <1>1, <1>2, <1>3 DEF TypeInv
<1> QED
  BY <1>2, <1>3, <1>4 DEF Frames

LEMMA NotedType ==
  ASSUME TypeInv, stack # <<>>, NEW r \in Results, NEW what \in {"enter", "item", "leave"}
  PROVE  /\ Noted(what, r) \in Seq(Entries)
         /\ Len(Noted(what, r)) = Len(log) + 1 /\ Len(log) \in Nat
         /\ Noted(what, r)[Len(log) + 1] = [what |-> what, path |-> Path, res |-> r]
         /\ \A i \in 1 .. Len(log) : Noted(what, r)[i] = log[i]
         /\ Path \in Seq(Places) \ {<<>>} /\ Len(Path) = Len(stack)
         /\ \A i \in 1 .. Len(stack) :
              Path[i] = [name |-> stack[i].task.name, part |-> stack[i].part, item |-> stack[i].item]
<1>1. stack \in Seq(Frames) /\ log \in Seq(Entries)
  BY DEF TypeInv
<1>2. /\ Len(stack) \in Nat /\ DOMAIN stack = 1 .. Len(stack)
      /\ \A i \in 1 .. Len(stack) : stack[i] \in Frames
  BY <1>1
<1>3. \A i \in 1 .. Len(stack) :
        [name |-> stack[i].task.name, part |-> stack[i].part, item |-> stack[i].item] \in Places
  <2> TAKE i \in 1 .. Len(stack)
  <2>1. stack[i].task \in Tasks /\ stack[i].part \in Parts /\ stack[i].item \in Nat \ {0}
    BY <1>2 DEF Frames
  <2> QED
    BY <2>1 DEF Places
<1>4. Path \in [1 .. Len(stack) -> Places]
  BY <1>2, <1>3 DEF Path
<1>5. /\ Path \in Seq(Places) \ {<<>>} /\ Len(Path) = Len(stack)
      /\ \A i \in 1 .. Len(stack) :
           Path[i] = [name |-> stack[i].task.name, part |-> stack[i].part, item |-> stack[i].item]
  <2>1. Path \in Seq(Places) /\ Len(Path) = Len(stack)
    BY <1>2, <1>4
  <2>2. Path # <<>>
    BY <1>1, <1>2, <2>1, EmptySeq
  <2> QED
    BY <2>1, <2>2, <1>2 DEF Path
<1> DEFINE e == [what |-> what, path |-> Path, res |-> r]
<1>6. e \in Entries
  BY <1>5 DEF Entries
<1>7. Noted(what, r) = Append(log, e)
  BY DEF Noted
<1> HIDE DEF e
<1>8. /\ Append(log, e) \in Seq(Entries)
      /\ Len(Append(log, e)) = Len(log) + 1 /\ Len(log) \in Nat
      /\ Append(log, e)[Len(log) + 1] = e
      /\ \A i \in 1 .. Len(log) : Append(log, e)[i] = log[i]
  BY <1>1, <1>6
<1> QED
  BY <1>5, <1>7, <1>8 DEF e
(* A step that leaves the frames below the innermost one as they are.      *)
LEMMA TurnTyped ==
  ASSUME TypeInv, stack # <<>>, NEW f \in Frames, Shape(f), f.task = Top.task,
         stack' = Go(f), vars' \in Scopes, log' \in Seq(Entries)
  PROVE  TypeInv'
<1>1. stack \in Seq(Frames)
  BY DEF TypeInv
<1>2. /\ Len(stack) \in Nat \ {0} /\ stack' \in Seq(Frames) /\ Len(stack') = Len(stack)
      /\ stack'[Len(stack)] = f
      /\ \A i \in 1 .. Len(stack) - 1 : stack'[i] = stack[i]
  BY <1>1, Gone
<1>3. ASSUME NEW i \in 1 .. Len(stack) PROVE Shape(stack'[i])
  <2>1. CASE i = Len(stack)
    BY <2>1, <1>2
  <2>2. CASE i # Len(stack)
    <3>1. i \in 1 .. Len(stack) - 1
      BY <2>2, <1>2
    <3> QED
      BY <3>1, <1>2 DEF TypeInv
  <2> QED
    BY <2>1, <2>2
<1>4. \A i \in 1 .. Len(stack) - 1 :
        /\ stack'[i].part \in Sequences
        /\ stack'[i].pos \in DOMAIN Children(stack'[i])
        /\ Children(stack'[i])[stack'[i].pos] = stack'[i + 1].task
  <2> TAKE i \in 1 .. Len(stack) - 1
  <2>1. stack'[i] = stack[i] /\ Top = stack[Len(stack)]
    BY <1>1, <1>2, Gone
  <2>2. stack'[i + 1].task = stack[i + 1].task
    <3>1. CASE i + 1 = Len(stack)
      BY <3>1, <1>2, <2>1
    <3>2. CASE i + 1 # Len(stack)
      <4>1. i + 1 \in 1 .. Len(stack) - 1
        BY <3>2, <1>2
      <4> QED
        BY <4>1, <1>2
    <3> QED
      BY <3>1, <3>2
  <2> QED
    BY <2>1, <2>2 DEF TypeInv
<1> QED
  BY <1>2, <1>3, <1>4 DEF TypeInv

LEMMA FrameType ==
  ASSUME NEW t \in Tasks
  PROVE  Frame(t) \in Frames /\ Shape(Frame(t)) /\ Frame(t).task = t /\ Frame(t).part = "start"
BY ResultTypes DEF Frame, Frames, Parts, Shape, Sequences

(* The tasks of a block and of a chart are tasks.                          *)
LEMMA ChildType ==
  ASSUME NEW f \in Frames, Shape(f), f.part \in Sequences
  PROVE  Children(f) \in Seq(Tasks)
<1>1. f.task \in Tasks
  BY DEF Frames
<1>2. CASE f.part = "chart"
  BY <1>2, TaskLogicAssumption DEF Children, Shape, TreeAssumption
<1>3. CASE f.part # "chart"
  <2>1. {f.task.block, f.task.rescue, f.task.always} \subseteq Seq(Tasks)
    BY <1>1, TaskLogicAssumption DEF TaskAssumption
  <2>2. f.task[f.part] \in {f.task.block, f.task.rescue, f.task.always}
    BY <1>3 DEF Sequences
  <2> QED
    BY <2>1, <2>2, <1>3 DEF Children
<1> QED
  BY <1>2, <1>3
-----------------------------------------------------------------------------
(* What a step may do to the innermost frame, which becomes f, when it     *)
(* neither begins nor ends a task.                                         *)
Moves(f) ==
  /\ Top.part = f.part => f.pos = Top.pos \/ f.part = "chart"
  /\ f.part \in {"start", "rescue"} => Top.part = f.part
  /\ f.part = "block" => Top.part \in {"start", "block"}
  /\ f.part \in {"item", "judge"} => Top.part \in {"start", "item", "attempt"}
  /\ f.part = "attempt" => Top.part \in {"item", "attempt"}
  /\ f.part = "chart" => Top.part \in {"start", "chart"}
  /\ f.part = "always" => Top.part \in {"block", "rescue"} /\ f.pos = 0
  /\ f.part = "end" => Top.part \notin {"block", "rescue", "end"}
  /\ f.part = "end" /\ Top.part = "always" => Ahead(Top) = {}

(* How it changes the variables of the scope.                              *)
Rescopes(f) ==
  /\ f.failed = Top.failed
  /\ \/ Top.part # "chart" /\ f.part # "chart" /\ (vars'.block_failed => vars.block_failed)
     \/ Top.part = "start" /\ f.part = "chart" /\ ~vars'.block_failed /\ f.saved = vars
     \/ Top.part = "chart" /\ f.part = "chart" /\ ~vars'.block_failed /\ f.saved = Top.saved
     \/ Top.part = "chart" /\ f.part = "end" /\ vars'.block_failed = Top.saved.block_failed

(* How it keeps what is known of failures, and what it records.            *)
Answers(f) ==
  /\ Top.res.lost => f.res.lost
  /\ Top.res.failed => f.res.failed \/ f.res.lost \/ Top.task.failed_when = "no"
  /\ \/ log' = log
     \/ log' = Noted("enter", Ok) /\ Top.part = "start" /\ (f.task.kind = "block" => f.part = "block")
     \/ \E r \in Results :
          /\ log' = Noted("item", r)
          /\ r.lost => f.res.lost
          /\ r.failed => f.res.failed \/ f.res.lost

Turn(f) ==
  /\ stack # <<>> /\ stack' = Go(f)
  /\ f \in Frames /\ Shape(f) /\ f.task = Top.task
  /\ vars' \in Scopes /\ log' \in Seq(Entries)
  /\ Moves(f) /\ Rescopes(f) /\ Answers(f)

LEMMA SkipTurns ==
  ASSUME TypeInv, Skip
  PROVE  \E f : Turn(f)
<1> DEFINE f == Ends(Skipped)
<1>1. stack # <<>> /\ Top.part = "start" /\ stack' = Go(f) /\ log' = log
      /\ vars' = Registered(Top.task, vars, Skipped)
  BY DEF Skip
<1>2. vars' \in Scopes /\ vars'.block_failed = vars.block_failed
  <2>1. vars \in Scopes /\ Top.task \in Tasks /\ Skipped \in Results
    BY <1>1, TopFacts, ResultTypes DEF TypeInv
  <2> QED
    BY <1>1, <2>1, RegisteredType
<1>3. /\ f \in Frames /\ Shape(f) /\ f.task = Top.task /\ f.part = "end" /\ f.res = Skipped
      /\ f.failed = Top.failed
  BY <1>1, TopFacts, ResultTypes DEF Ends, Frames, Parts, Shape, Sequences
<1>4. Top.res = Ok
  BY <1>1, TopFacts DEF Shape
<1> HIDE DEF f
<1>5. Moves(f)
  BY <1>1, <1>3 DEF Moves
<1>6. Rescopes(f)
  BY <1>1, <1>2, <1>3 DEF Rescopes
<1>7. Answers(f)
  BY <1>1, <1>3, <1>4, ResultTypes DEF Answers
<1>8. log' \in Seq(Entries)
  BY <1>1 DEF TypeInv
<1> QED
  BY <1>1, <1>2, <1>3, <1>5, <1>6, <1>7, <1>8 DEF Turn

LEMMA RefusedTurns ==
  ASSUME TypeInv, Refused
  PROVE  \E f : Turn(f)
<1> DEFINE f == Ends(Failed)
<1>1. stack # <<>> /\ Top.part = "start" /\ stack' = Go(f) /\ log' = log /\ vars' = vars
  BY DEF Refused
<1>2. vars' \in Scopes /\ log' \in Seq(Entries)
  BY <1>1 DEF TypeInv
<1>3. /\ f \in Frames /\ Shape(f) /\ f.task = Top.task /\ f.part = "end" /\ f.res = Failed
      /\ f.failed = Top.failed
  BY <1>1, TopFacts, ResultTypes DEF Ends, Frames, Parts, Shape, Sequences
<1>4. Top.res = Ok
  BY <1>1, TopFacts DEF Shape
<1> HIDE DEF f
<1>5. Moves(f)
  BY <1>1, <1>3 DEF Moves
<1>6. Rescopes(f)
  BY <1>1, <1>3 DEF Rescopes
<1>7. Answers(f)
  BY <1>1, <1>3, <1>4, ResultTypes DEF Answers
<1> QED
  BY <1>1, <1>2, <1>3, <1>5, <1>6, <1>7 DEF Turn

LEMMA BeginTurns ==
  ASSUME TypeInv, Begin
  PROVE  \E f : Turn(f)
<1>1. stack # <<>> /\ Top.part = "start" /\ log' = Noted("enter", Ok) /\ ~Unexpandable(Top.task)
  BY DEF Begin
<1>2. log' \in Seq(Entries) /\ vars \in Scopes
  BY <1>1, NotedType, ResultTypes DEF TypeInv
<1>3. Top.res = Ok /\ Top.item = 1
  BY <1>1, TopFacts DEF Shape
<1>4. Top.task.kind \in Kinds
  BY <1>1, TopFacts, TaskLogicAssumption DEF TaskAssumption
<1>5. CASE Top.task.kind = "block"
  <2> DEFINE f == [Top EXCEPT !.part = "block"]
  <2>1. stack' = Go(f) /\ vars' = vars
    BY <1>5 DEF Begin
  <2>2. /\ f \in Frames /\ Shape(f) /\ f.task = Top.task /\ f.part = "block" /\ f.res = Ok
        /\ f.failed = Top.failed
    BY <1>1, <1>3, <1>5, TopFacts DEF Frames, Parts, Shape, Sequences
  <2> HIDE DEF f
  <2>3. Moves(f)
    BY <1>1, <2>2 DEF Moves
  <2>4. Rescopes(f)
    BY <1>1, <2>1, <2>2 DEF Rescopes
  <2>5. Answers(f)
    BY <1>1, <1>3, <2>2, ResultTypes DEF Answers
  <2> QED
    BY <1>1, <1>2, <2>1, <2>2, <2>3, <2>4, <2>5 DEF Turn
<1>6. CASE Top.task.kind = "chart"
  <2> DEFINE f == [Top EXCEPT !.part = "chart", !.saved = vars]
  <2>1. stack' = Go(f) /\ vars' = Fresh
    BY <1>6 DEF Begin
  <2>2. Top.task.ref \in DOMAIN Charts
    BY <1>1, <1>6 DEF Unexpandable
  <2>3. /\ f \in Frames /\ Shape(f) /\ f.task = Top.task /\ f.part = "chart" /\ f.res = Ok
        /\ f.failed = Top.failed /\ f.saved = vars
    BY <1>1, <1>2, <1>3, <1>6, <2>2, TopFacts DEF Frames, Parts, Shape, Sequences
  <2> HIDE DEF f
  <2>4. Moves(f)
    BY <1>1, <2>3 DEF Moves
  <2>5. Rescopes(f)
    BY <1>1, <2>1, <2>3, ResultTypes DEF Rescopes
  <2>6. Answers(f)
    BY <1>1, <1>3, <1>6, <2>3, ResultTypes DEF Answers
  <2> QED
    BY <1>1, <1>2, <2>1, <2>3, <2>4, <2>5, <2>6, ResultTypes DEF Turn
<1>7. CASE Top.task.kind = "module"
  <2> DEFINE part == IF Items(Top.task) = 0 THEN "judge" ELSE "item"
             f == [Top EXCEPT !.part = part]
  <2>1. stack' = Go(f) /\ vars' = vars
    BY <1>7 DEF Begin
  <2>2. part \in {"judge", "item"}
    OBVIOUS
  <2> HIDE DEF part
  <2>3. /\ f \in Frames /\ Shape(f) /\ f.task = Top.task /\ f.part \in {"judge", "item"} /\ f.res = Ok
        /\ f.failed = Top.failed
    BY <1>1, <1>3, <1>7, <2>2, TopFacts DEF Frames, Parts, Shape, Sequences
  <2> HIDE DEF f
  <2>4. Moves(f)
    BY <1>1, <2>3 DEF Moves
  <2>5. Rescopes(f)
    BY <1>1, <2>1, <2>3 DEF Rescopes
  <2>6. Answers(f)
    BY <1>1, <1>3, <1>7, <2>3, ResultTypes DEF Answers
  <2> QED
    BY <1>1, <1>2, <2>1, <2>3, <2>4, <2>5, <2>6 DEF Turn
<1> QED
  BY <1>4, <1>5, <1>6, <1>7 DEF Kinds
LEMMA EndItemTurns ==
  ASSUME TypeInv, stack # <<>>, Top.part \in {"item", "attempt"}, NEW r \in Results, EndItem(r)
  PROVE  \E f : Turn(f)
<1> DEFINE t == Top.task
           sum == IF t.looped THEN Aggregate(Top.res, r) ELSE r
           part == IF Top.item < Items(t) THEN "item" ELSE IF t.looped /\ sum.lost THEN "end" ELSE "judge"
           f == [Top EXCEPT !.res = sum, !.item = @ + 1, !.left = 0, !.part = part]
<1>1. stack' = Go(f) /\ log' = Noted("item", r) /\ vars' = vars
  BY DEF EndItem
<1>2. log' \in Seq(Entries) /\ vars' \in Scopes
  BY <1>1, NotedType DEF TypeInv
<1>3. t \in Tasks /\ t.kind = "module" /\ t.looped \in BOOLEAN /\ t.items \in Nat
  BY TopFacts, TaskLogicAssumption DEF TaskAssumption, Shape
<1>4. Top.res \in Results /\ (~t.looped => Top.res = Ok /\ Top.item = 1)
  BY TopFacts DEF Shape
<1>5. /\ sum \in Results
      /\ Top.res.lost => sum.lost
      /\ Top.res.failed => sum.failed \/ sum.lost
      /\ r.lost => sum.lost
      /\ r.failed => sum.failed \/ sum.lost
  <2>1. CASE ~t.looped
    BY <1>4, <2>1, ResultTypes
  <2>2. CASE t.looped /\ Top.res.lost
    <3>1. sum = Top.res
      BY <2>2 DEF Aggregate
    <3> HIDE DEF sum
    <3> QED
      BY <1>4, <2>2, <3>1
  <2>3. CASE t.looped /\ ~Top.res.lost
    <3>1. sum = [Top.res EXCEPT !.changed = @ \/ (r.changed /\ ~r.lost),
                                !.failed = @ \/ (r.failed /\ ~r.lost), !.lost = r.lost]
      BY <2>3 DEF Aggregate
    <3> HIDE DEF sum
    <3> QED
      BY <1>4, <2>3, <3>1 DEF Results
  <2> QED
    BY <1>3, <2>1, <2>2, <2>3
<1> HIDE DEF sum
<1>6. part \in {"item", "end", "judge"} /\ (part = "item" => t.looped)
  BY <1>3, <1>4 DEF Items
<1> HIDE DEF part
<1>7. Top \in Frames /\ Top.item + 1 \in Nat \ {0}
  BY TopFacts
<1>8. /\ f \in Frames /\ f.task = t /\ f.part = part /\ f.res = sum
      /\ f.failed = Top.failed /\ f.pos = Top.pos
  BY <1>5, <1>6, <1>7 DEF Frames, Parts
<1> HIDE DEF f
<1>9. Shape(f)
  BY <1>3, <1>6, <1>8 DEF Shape, Sequences
<1>10. Moves(f)
  BY <1>6, <1>8 DEF Moves
<1>11. Rescopes(f)
  BY <1>1, <1>6, <1>8 DEF Rescopes
<1>12. Answers(f)
  BY <1>1, <1>5, <1>8 DEF Answers
<1> QED
  BY <1>1, <1>2, <1>8, <1>9, <1>10, <1>11, <1>12 DEF Turn

LEMMA NoCallTurns ==
  ASSUME TypeInv, NoCall
  PROVE  \E f : Turn(f)
<1>1. PICK r \in {Lost, Failed} : stack # <<>> /\ Top.part = "item" /\ EndItem(r)
  BY DEF NoCall
<1>2. r \in Results
  BY ResultTypes
<1> QED
  BY <1>1, <1>2, EndItemTurns

(* The innermost frame goes on to another attempt.                         *)
LEMMA AttemptNext ==
  ASSUME TypeInv, stack # <<>>, Top.part \in {"item", "attempt"}, NEW n \in Nat,
         stack' = Go([Top EXCEPT !.part = "attempt", !.left = n]), vars' = vars, log' = log
  PROVE  \E f : Turn(f)
<1> DEFINE f == [Top EXCEPT !.part = "attempt", !.left = n]
<1>1. log' \in Seq(Entries) /\ vars' \in Scopes
  BY DEF TypeInv
<1>2. Top \in Frames /\ Shape(Top) /\ Top.task.kind = "module"
  BY TopFacts DEF Shape
<1>3. /\ f \in Frames /\ f.task = Top.task /\ f.part = "attempt" /\ f.res = Top.res /\ f.item = Top.item
      /\ f.failed = Top.failed /\ stack' = Go(f) /\ f.pos = Top.pos
  BY <1>2 DEF Frames, Parts
<1> HIDE DEF f
<1>4. Shape(f)
  BY <1>2, <1>3 DEF Shape, Sequences
<1>5. Moves(f)
  BY <1>3 DEF Moves
<1>6. Rescopes(f)
  BY <1>3 DEF Rescopes
<1>7. Answers(f)
  BY <1>3 DEF Answers
<1> QED
  BY <1>1, <1>3, <1>4, <1>5, <1>6, <1>7 DEF Turn

LEMMA AttemptsType ==
  ASSUME NEW t \in Tasks
  PROVE  Attempts(t) \in Nat
BY TaskLogicAssumption DEF TaskAssumption, Attempts

LEMMA PrepareTurns ==
  ASSUME TypeInv, Prepare
  PROVE  \E f : Turn(f)
<1>1. /\ stack # <<>> /\ Top.part = "item" /\ vars' = vars /\ log' = log
      /\ stack' = Go([Top EXCEPT !.part = "attempt", !.left = Attempts(Top.task)])
  BY DEF Prepare
<1>2. Attempts(Top.task) \in Nat
  BY <1>1, TopFacts, AttemptsType
<1> QED
  BY <1>1, <1>2, AttemptNext

LEMMA AttemptTurns ==
  ASSUME TypeInv, Attempt
  PROVE  \E f : Turn(f)
<1>1. stack # <<>> /\ Top.part = "attempt"
  BY DEF Attempt
<1>2. PICK r \in Outcomes, met \in {"yes", "no", "error"} :
        \/ Top.left > 1 /\ stack' = Go(NextAttempt(Top)) /\ vars' = vars /\ log' = log
        \/ EndItem(IF met = "yes" THEN r ELSE [r EXCEPT !.failed = TRUE])
  BY DEF Attempt
<1>3. r \in Results
  BY DEF Outcomes, Results
<1>4. CASE Top.left > 1 /\ stack' = Go(NextAttempt(Top)) /\ vars' = vars /\ log' = log
  <2>1. Top \in Frames /\ Top.left \in Nat
    BY <1>1, TopFacts
  <2>2. Top.left - 1 \in Nat
    BY <1>4, <2>1
  <2>3. NextAttempt(Top) = [Top EXCEPT !.part = "attempt", !.left = Top.left - 1]
    BY <1>1, <2>1 DEF NextAttempt, Frames
  <2> QED
    BY <1>1, <1>4, <2>2, <2>3, AttemptNext
<1>5. CASE EndItem(IF met = "yes" THEN r ELSE [r EXCEPT !.failed = TRUE])
  <2>1. (IF met = "yes" THEN r ELSE [r EXCEPT !.failed = TRUE]) \in Results
    BY <1>3 DEF Results
  <2> QED
    BY <1>1, <1>5, <2>1, EndItemTurns
<1> QED
  BY <1>2, <1>4, <1>5

LEMMA TimedOutTurns ==
  ASSUME TypeInv, TimedOut
  PROVE  \E f : Turn(f)
<1>1. stack # <<>> /\ Top.part = "attempt"
  BY DEF TimedOut
<1>2. \E r \in Results : EndItem(r)
  <2>1. CASE EndItem(Lost)
    BY <2>1, ResultTypes
  <2>2. ASSUME NEW changed \in BOOLEAN, EndItem(Res(changed, TRUE, TRUE)) PROVE \E r \in Results : EndItem(r)
    <3>1. Res(changed, TRUE, TRUE) \in Results
      BY DEF Res, Results
    <3> QED
      BY <2>2, <3>1
  <2> QED
    BY <2>1, <2>2 DEF TimedOut
<1> QED
  BY <1>1, <1>2, EndItemTurns

LEMMA JudgeTurns ==
  ASSUME TypeInv, Judge
  PROVE  \E f : Turn(f)
<1> DEFINE t == Top.task
           judged == [Top.res EXCEPT !.changed = Judged(t.changed_when, @), !.failed = Judged(t.failed_when, @)]
           broken == [Top.res EXCEPT !.failed = TRUE]
           r == IF "error" \in {t.changed_when, t.failed_when} THEN broken ELSE judged
           f == Ends(r)
<1>1. stack # <<>> /\ Top.part = "judge" /\ log' = log /\ stack' = Go(f)
  BY DEF Judge
<1>2. t \in Tasks /\ t.kind = "module" /\ t.changed_when \in Judgements /\ t.failed_when \in Judgements
  BY <1>1, TopFacts, TaskLogicAssumption DEF TaskAssumption, Shape
<1>3. Top.res \in Results /\ Top \in Frames
  BY <1>1, TopFacts
<1>4. judged \in Results /\ broken \in Results
  BY <1>2, <1>3 DEF Judged, Results, Judgements
<1>5. vars' \in Scopes /\ vars'.block_failed = vars.block_failed
  <2>1. vars' = vars \/ vars' = Registered(t, vars, judged)
    BY DEF Judge
  <2>2. vars \in Scopes
    BY DEF TypeInv
  <2> QED
    BY <1>2, <1>4, <2>1, <2>2, RegisteredType
<1>6. /\ r \in Results
      /\ Top.res.lost => r.lost
      /\ Top.res.failed => r.failed \/ t.failed_when = "no"
  BY <1>2, <1>3, <1>4 DEF Judged, Results, Judgements
<1> HIDE DEF r
<1>7. /\ f \in Frames /\ f.task = Top.task /\ f.part = "end" /\ f.res = r
      /\ f.failed = Top.failed
  BY <1>3, <1>6 DEF Ends, Frames, Parts
<1> HIDE DEF f
<1>8. Shape(f)
  BY <1>7 DEF Shape, Sequences
<1>9. Moves(f)
  BY <1>1, <1>7 DEF Moves
<1>10. Rescopes(f)
  BY <1>1, <1>5, <1>7 DEF Rescopes
<1>11. Answers(f)
  BY <1>1, <1>6, <1>7 DEF Answers
<1>12. log' \in Seq(Entries)
  BY <1>1 DEF TypeInv
<1> QED
  BY <1>1, <1>5, <1>7, <1>8, <1>9, <1>10, <1>11, <1>12 DEF Turn

LEMMA PartEndsTurns ==
  ASSUME TypeInv, PartEnds
  PROVE  \E f : Turn(f)
<1> DEFINE part == IF Top.part = "always" THEN "end" ELSE "always"
           f == To(Top, part)
<1>1. /\ stack # <<>> /\ Top.part \in {"block", "rescue", "always"} /\ log' = log /\ stack' = Go(f)
      /\ Ahead(Top) = {}
      /\ vars' = IF Top.part = "rescue" THEN [vars EXCEPT !.block_failed = FALSE] ELSE vars
  BY DEF PartEnds, Sequences
<1>2. vars' \in Scopes /\ (vars'.block_failed => vars.block_failed)
  BY <1>1 DEF TypeInv, Scopes
<1>3. Top \in Frames /\ Top.task.kind = "block"
  BY <1>1, TopFacts DEF Shape
<1>4. part \in {"end", "always"} /\ (part = "end" <=> Top.part = "always")
  OBVIOUS
<1> HIDE DEF part
<1>5. /\ f \in Frames /\ f.task = Top.task /\ f.part = part /\ f.res = Top.res
      /\ f.failed = Top.failed /\ f.pos = 0
  BY <1>3, <1>4 DEF To, Frames, Parts, Sequences
<1> HIDE DEF f
<1>6. Shape(f)
  BY <1>3, <1>4, <1>5 DEF Shape, Sequences
<1>7. Moves(f)
  BY <1>1, <1>4, <1>5 DEF Moves
<1>8. Rescopes(f)
  BY <1>1, <1>2, <1>4, <1>5 DEF Rescopes
<1>9. Answers(f)
  BY <1>1, <1>5 DEF Answers
<1>10. log' \in Seq(Entries)
  BY <1>1 DEF TypeInv
<1> QED
  BY <1>1, <1>2, <1>5, <1>6, <1>7, <1>8, <1>9, <1>10 DEF Turn

LEMMA ItemEndsTurns ==
  ASSUME TypeInv, ItemEnds
  PROVE  \E f : Turn(f)
<1>1. stack # <<>> /\ Top.part = "chart" /\ log' = log
  BY DEF ItemEnds
<1>2. Top \in Frames /\ Top.task.kind = "chart" /\ Top.task.ref \in DOMAIN Charts /\ Top.item + 1 \in Nat \ {0}
  BY <1>1, TopFacts DEF Shape
<1>3. log' \in Seq(Entries)
  BY <1>1 DEF TypeInv
<1>4. CASE Top.item < Items(Top.task)
  <2> DEFINE f == [Top EXCEPT !.item = @ + 1, !.pos = 0]
  <2>1. stack' = Go(f) /\ vars' = Fresh
    BY <1>4 DEF ItemEnds
  <2>2. /\ f \in Frames /\ f.task = Top.task /\ f.part = "chart" /\ f.res = Top.res
        /\ f.failed = Top.failed /\ f.saved = Top.saved
    BY <1>1, <1>2 DEF Frames, Parts
  <2> HIDE DEF f
  <2>3. Shape(f)
    BY <1>2, <2>2 DEF Shape
  <2>4. Moves(f)
    BY <1>1, <2>2 DEF Moves
  <2>5. Rescopes(f)
    BY <1>1, <2>1, <2>2, ResultTypes DEF Rescopes
  <2>6. Answers(f)
    BY <1>1, <2>2 DEF Answers
  <2> QED
    BY <1>1, <1>3, <2>1, <2>2, <2>3, <2>4, <2>5, <2>6, ResultTypes DEF Turn
<1>5. CASE ~(Top.item < Items(Top.task))
  <2> DEFINE f == Ends(Top.res)
  <2>1. stack' = Go(f) /\ vars' = Registered(Top.task, Top.saved, Top.res)
    BY <1>5 DEF ItemEnds
  <2>2. vars' \in Scopes /\ vars'.block_failed = Top.saved.block_failed
    <3>1. Top.task \in Tasks /\ Top.saved \in Scopes /\ Top.res \in Results
      BY <1>1, TopFacts
    <3> QED
      BY <2>1, <3>1, RegisteredType
  <2>3. /\ f \in Frames /\ f.task = Top.task /\ f.part = "end" /\ f.res = Top.res
        /\ f.failed = Top.failed
    BY <1>2 DEF Ends, Frames, Parts
  <2> HIDE DEF f
  <2>4. Shape(f)
    BY <2>3 DEF Shape, Sequences
  <2>5. Moves(f)
    BY <1>1, <2>3 DEF Moves
  <2>6. Rescopes(f)
    BY <1>1, <2>2, <2>3 DEF Rescopes
  <2>7. Answers(f)
    BY <1>1, <2>3 DEF Answers
  <2> QED
    BY <1>1, <1>3, <2>1, <2>2, <2>3, <2>4, <2>5, <2>6, <2>7 DEF Turn
<1> QED
  BY <1>4, <1>5
-----------------------------------------------------------------------------
(* A task begins: the innermost frame, which becomes f, has come to it.    *)
Deepens(f, g) ==
  /\ stack # <<>> /\ Top.part \in Sequences /\ stack' = Append(Go(f), g)
  /\ f \in Frames /\ Shape(f) /\ f.task = Top.task /\ f.part = Top.part /\ f.item = Top.item
  /\ f.res = Top.res /\ f.failed = Top.failed /\ f.saved = Top.saved
  /\ f.pos \in Ahead(Top) /\ f.pos \in DOMAIN Children(f)
  /\ g = Frame(Children(f)[f.pos]) /\ g.task = Children(f)[f.pos] /\ g.task \in Tasks
  /\ g \in Frames /\ Shape(g) /\ g.part = "start"
  /\ vars' = vars /\ log' = log /\ notified' = notified

LEMMA EnterDeepens ==
  ASSUME TypeInv, Enter
  PROVE  \E f, g : Deepens(f, g)
<1>1. stack # <<>> /\ Top.part \in Sequences /\ vars' = vars /\ log' = log /\ notified' = notified
  BY DEF Enter
<1>2. PICK i \in Ahead(Top) : stack' = Append(Go([Top EXCEPT !.pos = i]), Frame(Children(Top)[i]))
  BY DEF Enter
<1> DEFINE f == [Top EXCEPT !.pos = i]
           g == Frame(Children(Top)[i])
<1>3. Top \in Frames /\ Shape(Top)
  BY <1>1, TopFacts
<1>4. Children(Top) \in Seq(Tasks) /\ i \in DOMAIN Children(Top)
  BY <1>1, <1>2, <1>3, ChildType DEF Ahead
<1>5. i \in Nat /\ Children(Top)[i] \in Tasks
  BY <1>4
<1>6. /\ f \in Frames /\ f.task = Top.task /\ f.part = Top.part /\ f.item = Top.item
      /\ f.res = Top.res /\ f.failed = Top.failed /\ f.saved = Top.saved /\ f.pos = i
  BY <1>3, <1>5 DEF Frames
<1> HIDE DEF f
<1>7. Shape(f) /\ Children(f) = Children(Top)
  BY <1>3, <1>6 DEF Shape, Children
<1>8. g \in Frames /\ Shape(g) /\ g.part = "start" /\ g.task = Children(f)[f.pos]
  BY <1>5, <1>6, <1>7, FrameType
<1>9. stack' = Append(Go(f), g) /\ g = Frame(Children(f)[f.pos])
  BY <1>2, <1>6, <1>7 DEF f
<1> HIDE DEF g
<1>10. f.pos \in Ahead(Top) /\ f.pos \in DOMAIN Children(f) /\ g.task \in Tasks
  BY <1>2, <1>4, <1>5, <1>6, <1>7, <1>8
<1>11. Deepens(f, g)
  BY <1>1, <1>6, <1>7, <1>8, <1>9, <1>10 DEF Deepens
<1> QED
  BY <1>11

LEMMA TurnFrames ==
  ASSUME stack \in Seq(Frames), NEW f, Turn(f)
  PROVE  /\ Len(stack) \in Nat \ {0} /\ Len(stack') = Len(stack) /\ Top = stack[Len(stack)]
         /\ stack'[Len(stack)] = f
         /\ \A i \in 1 .. Len(stack) - 1 : stack'[i] = stack[i]
BY Gone DEF Turn

LEMMA DeepensFrames ==
  ASSUME stack \in Seq(Frames), NEW f, NEW g, Deepens(f, g)
  PROVE  /\ Len(stack) \in Nat \ {0} /\ Len(stack') = Len(stack) + 1 /\ Top = stack[Len(stack)]
         /\ stack'[Len(stack)] = f /\ stack'[Len(stack) + 1] = g
         /\ \A i \in 1 .. Len(stack) - 1 : stack'[i] = stack[i]
         /\ stack' \in Seq(Frames)
<1>1. stack # <<>> /\ f \in Frames /\ g \in Frames /\ stack' = Append(Go(f), g)
  BY DEF Deepens
<1>2. Len(stack) \in Nat \ {0} /\ Top = stack[Len(stack)]
  BY <1>1, Gone
<1> DEFINE s == Append(Go(f), g)
<1>3. /\ s \in Seq(Frames) /\ Len(s) = Len(stack) + 1
      /\ s[Len(stack)] = f /\ s[Len(stack) + 1] = g
      /\ \A i \in 1 .. Len(stack) - 1 : s[i] = stack[i]
  BY <1>1, Pushed
<1> HIDE DEF s
<1>4. stack' = s
  BY <1>1 DEF s
<1> QED
  BY <1>2, <1>3, <1>4

LEMMA DeepensTyped ==
  ASSUME TypeInv, NEW f, NEW g, Deepens(f, g)
  PROVE  TypeInv'
<1>1. stack \in Seq(Frames) /\ vars' \in Scopes /\ log' \in Seq(Entries)
  BY DEF TypeInv, Deepens
<1>2. /\ Len(stack) \in Nat \ {0} /\ stack' \in Seq(Frames) /\ Len(stack') = Len(stack) + 1
      /\ stack'[Len(stack)] = f /\ stack'[Len(stack) + 1] = g
      /\ \A i \in 1 .. Len(stack) - 1 : stack'[i] = stack[i]
      /\ Top = stack[Len(stack)]
  BY <1>1, DeepensFrames
<1>3. \A i \in 1 .. Len(stack') : i = Len(stack) \/ i = Len(stack) + 1 \/ i \in 1 .. Len(stack) - 1
  BY <1>2
<1>4. \A i \in 1 .. Len(stack') : Shape(stack'[i])
  BY <1>2, <1>3 DEF TypeInv, Deepens
<1>5. ASSUME NEW i \in 1 .. Len(stack') - 1
      PROVE  /\ stack'[i].part \in Sequences
             /\ stack'[i].pos \in DOMAIN Children(stack'[i])
             /\ Children(stack'[i])[stack'[i].pos] = stack'[i + 1].task
  <2>1. CASE i = Len(stack)
    BY <2>1, <1>2 DEF Deepens
  <2>2. CASE i + 1 = Len(stack)
    <3>1. i \in 1 .. Len(stack) - 1
      BY <2>2, <1>2
    <3>2. stack'[i] = stack[i] /\ stack'[i + 1].task = stack[i + 1].task
      BY <2>2, <3>1, <1>2 DEF Deepens
    <3> QED
      BY <3>1, <3>2 DEF TypeInv
  <2>3. CASE i # Len(stack) /\ i + 1 # Len(stack)
    <3>1. i \in 1 .. Len(stack) - 1 /\ i + 1 \in 1 .. Len(stack) - 1
      BY <2>3, <1>2
    <3>2. stack'[i] = stack[i] /\ stack'[i + 1] = stack[i + 1]
      BY <3>1, <1>2
    <3> QED
      BY <3>1, <3>2 DEF TypeInv
  <2> QED
    BY <2>1, <2>2, <2>3
<1> QED
  BY <1>1, <1>2, <1>4, <1>5 DEF TypeInv

-----------------------------------------------------------------------------
(* What a frame f has become, as g, when its task t ended with r.          *)
Hears(f, t, r, g) ==
  /\ g \in Frames /\ Shape(g) /\ g.task = f.task /\ g.item = f.item /\ g.saved = f.saved
  /\ f.part = "chart" => g.part \in {"chart", "end"} /\ g.failed = f.failed
  /\ f.part = "chart" /\ g.part = "chart" => g.pos >= f.pos
  /\ f.part # "chart" => g.part \notin {"start", "item", "attempt", "judge", "chart"}
  /\ f.part = "rescue" => g.part # "block"
  /\ f.part = "always" => g.part \in {"always", "end"}
  /\ g.part = "end" => f.part \in {"chart", "always"}
  /\ g.part = f.part /\ f.part # "chart" => g.pos = f.pos
  /\ g.part = "rescue" /\ f.part # "rescue" => g.pos = 0
  /\ g.part = "always" /\ f.part # "always" => g.pos = 0
  /\ f.failed => g.failed
  /\ f.res.lost \/ r.lost => g.res.lost
  /\ f.res.failed => g.res.failed
  /\ r.failed /\ ~t.ignore =>
       g.res.failed \/ g.res.lost \/ (f.part = "block" /\ f.task.rescue # <<>>)

LEMMA ToldHears ==
  ASSUME NEW f \in Frames, Shape(f), f.part \in Sequences, f.pos \in DOMAIN Children(f),
         NEW t \in Tasks, NEW r \in Results
  PROVE  Hears(f, t, r, Told(f, t, r))
<1>1. f.task \in Tasks /\ f.res \in Results /\ f.pos \in Nat /\ t.ignore \in BOOLEAN
  BY TaskLogicAssumption DEF TaskAssumption, Frames
<1> DEFINE g == [f EXCEPT !.res.changed = @ \/ r.changed]
<1>2. /\ g \in Frames /\ g.res \in Results /\ g.task = f.task /\ g.item = f.item /\ g.saved = f.saved
      /\ g.part = f.part /\ g.pos = f.pos /\ g.failed = f.failed
      /\ g.res.lost = f.res.lost /\ g.res.failed = f.res.failed
  BY <1>1 DEF Frames, Results
<1>3. Shape(g)
  BY <1>2 DEF Shape, Sequences
<1>4. Told(f, t, r) =
        IF r.lost /\ f.part = "chart" THEN To([f EXCEPT !.res.lost = TRUE], "end")
        ELSE IF r.lost THEN To([g EXCEPT !.res.lost = TRUE], AfterLost(f.part))
        ELSE IF ~r.failed \/ t.ignore THEN g
        ELSE IF f.part = "chart" THEN [g EXCEPT !.res.failed = TRUE, !.pos = Len(Children(f))]
        ELSE AfterFailure(g)
  BY DEF Told
<1> HIDE DEF g
<1>5. CASE r.lost /\ f.part = "chart"
  <2> DEFINE h == To([f EXCEPT !.res.lost = TRUE], "end")
  <2>1. Told(f, t, r) = h
    BY <1>4, <1>5
  <2>2. /\ h \in Frames /\ h.task = f.task /\ h.item = f.item /\ h.saved = f.saved /\ h.part = "end"
        /\ h.failed = f.failed /\ h.res.lost /\ h.res.failed = f.res.failed
    BY <1>1 DEF To, Frames, Results, Parts
  <2> HIDE DEF h
  <2> QED
    BY <1>5, <2>1, <2>2 DEF Hears, Shape, Sequences
<1>6. CASE r.lost /\ f.part # "chart"
  <2> DEFINE part == AfterLost(f.part)
             h == To([g EXCEPT !.res.lost = TRUE], part)
  <2>1. Told(f, t, r) = h
    BY <1>4, <1>6
  <2>2. IF f.part = "always" THEN part = "end" ELSE part = "always"
    BY <1>6 DEF AfterLost, Sequences
  <2> HIDE DEF part
  <2>3. /\ h \in Frames /\ h.task = f.task /\ h.item = f.item /\ h.saved = f.saved /\ h.part = part
        /\ h.failed = f.failed /\ h.res.lost /\ h.res.failed = f.res.failed /\ h.pos = 0
    BY <1>2, <2>2 DEF To, Frames, Results, Parts, Sequences
  <2> HIDE DEF h
  <2> QED
    BY <1>6, <2>1, <2>2, <2>3 DEF Hears, Shape, Sequences
<1>7. CASE ~r.lost /\ (~r.failed \/ t.ignore)
  <2>1. Told(f, t, r) = g
    BY <1>4, <1>7
  <2> QED
    BY <1>1, <1>2, <1>3, <1>7, <2>1 DEF Hears, Sequences
<1>8. CASE ~r.lost /\ r.failed /\ ~t.ignore /\ f.part = "chart"
  <2> DEFINE h == [g EXCEPT !.res.failed = TRUE, !.pos = Len(Children(f))]
  <2>1. Told(f, t, r) = h
    BY <1>4, <1>8
  <2>2. Len(Children(f)) \in Nat /\ Len(Children(f)) >= f.pos
    BY ChildType
  <2>3. /\ h \in Frames /\ h.task = f.task /\ h.item = f.item /\ h.saved = f.saved /\ h.part = "chart"
        /\ h.failed = f.failed /\ h.res.failed /\ h.res.lost = f.res.lost /\ h.pos = Len(Children(f))
    BY <1>2, <1>8, <2>2 DEF Frames, Results
  <2> HIDE DEF h
  <2> QED
    BY <1>8, <2>1, <2>2, <2>3 DEF Hears, Shape, Sequences
<1>9. CASE ~r.lost /\ r.failed /\ ~t.ignore /\ f.part # "chart"
  <2>1. Told(f, t, r) = AfterFailure(g)
    BY <1>4, <1>9
  <2>2. CASE g.part = "block" /\ g.task.rescue # <<>>
    <3> DEFINE h == To([g EXCEPT !.failed = TRUE], "rescue")
    <3>1. Told(f, t, r) = h
      BY <2>1, <2>2 DEF AfterFailure
    <3>2. /\ h \in Frames /\ h.task = f.task /\ h.item = f.item /\ h.saved = f.saved /\ h.part = "rescue"
          /\ h.failed /\ h.res = g.res /\ h.pos = 0
      BY <1>2 DEF To, Frames, Parts, Sequences
    <3> HIDE DEF h
    <3> QED
      BY <1>2, <1>9, <2>2, <3>1, <3>2 DEF Hears, Shape, Sequences
  <2>3. CASE g.part = "always"
    <3> DEFINE h == To([g EXCEPT !.res.failed = @ \/ ~g.res.lost], "end")
    <3>1. Told(f, t, r) = h
      BY <2>1, <2>3 DEF AfterFailure
    <3>2. /\ h \in Frames /\ h.task = f.task /\ h.item = f.item /\ h.saved = f.saved /\ h.part = "end"
          /\ h.failed = f.failed /\ h.pos = 0
          /\ h.res.lost = f.res.lost /\ (h.res.failed \/ h.res.lost) /\ (f.res.failed => h.res.failed)
      BY <1>2 DEF To, Frames, Results, Parts
    <3> HIDE DEF h
    <3>3. f.part = "always"
      BY <1>2, <2>3
    <3>4. Shape(h)
      BY <3>2 DEF Shape, Sequences
    <3>5. h.res.lost = f.res.lost /\ (h.res.failed \/ h.res.lost) /\ (f.res.failed => h.res.failed)
      BY <3>2
    <3>6. /\ h \in Frames /\ h.task = f.task /\ h.item = f.item /\ h.saved = f.saved /\ h.part = "end"
          /\ h.failed = f.failed
      BY <3>2
    <3>7. f.res.lost \/ r.lost => h.res.lost
      BY <1>9, <3>5, Zenon
    <3>8. r.failed /\ ~t.ignore => h.res.failed \/ h.res.lost
      BY <3>5, Zenon
    <3>9. Hears(f, t, r, h)
      BY <3>3, <3>4, <3>5, <3>6, <3>7, <3>8 DEF Hears
    <3> QED
      BY <3>1, <3>9
  <2>4. CASE ~(g.part = "block" /\ g.task.rescue # <<>>) /\ g.part # "always"
    <3> DEFINE h == To([g EXCEPT !.failed = TRUE, !.res.failed = TRUE], "always")
    <3>1. Told(f, t, r) = h
      BY <2>1, <2>4 DEF AfterFailure
    <3>2. /\ h \in Frames /\ h.task = f.task /\ h.item = f.item /\ h.saved = f.saved /\ h.part = "always"
          /\ h.failed /\ h.pos = 0
          /\ h.res.lost = f.res.lost /\ h.res.failed
      BY <1>2 DEF To, Frames, Results, Parts, Sequences
    <3> HIDE DEF h
    <3> QED
      BY <1>2, <1>9, <2>4, <3>1, <3>2 DEF Hears, Shape, Sequences
  <2> QED
    BY <2>2, <2>3, <2>4
<1> QED
  BY <1>1, <1>5, <1>6, <1>7, <1>8, <1>9
-----------------------------------------------------------------------------
(* The task that was run ends.                                             *)
Closes ==
  /\ stack # <<>> /\ Len(stack) = 1 /\ Top.part = "end" /\ stack' = <<>>
  /\ log' = Noted("leave", Top.res) /\ vars' = Scope(Top)

(* A task ends in a task, the frame of which becomes g.                    *)
Parent == stack[Len(stack) - 1]

Pops(g) ==
  /\ stack # <<>> /\ Len(stack) # 1 /\ Top.part = "end"
  /\ stack' = Append(SubSeq(stack, 1, Len(stack) - 2), g)
  /\ log' = Noted("leave", Top.res)
  /\ Hears(Parent, Top.task, Top.res, g)
  /\ vars' = CASE Parent.part = "chart" /\ g.part = "end" -> Parent.saved
               [] Parent.part = "block" /\ g.failed -> [Scope(Top) EXCEPT !.block_failed = TRUE]
               [] OTHER -> Scope(Top)

LEMMA ParentFacts ==
  ASSUME TypeInv, stack # <<>>, Len(stack) # 1
  PROVE  /\ Len(stack) - 1 \in 1 .. Len(stack) - 1 /\ Len(stack) - 1 \in Nat \ {0} /\ Len(stack) >= 2
         /\ Parent \in Frames /\ Shape(Parent) /\ Parent.part \in Sequences
         /\ Parent.pos \in DOMAIN Children(Parent) /\ Children(Parent)[Parent.pos] = Top.task
<1>1. Len(stack) \in Nat \ {0} /\ Top = stack[Len(stack)]
  BY TopFacts
<1>2. Len(stack) - 1 \in 1 .. Len(stack) - 1 /\ Len(stack) - 1 \in Nat \ {0} /\ Len(stack) >= 2
      /\ (Len(stack) - 1) + 1 = Len(stack) /\ Len(stack) - 1 \in 1 .. Len(stack)
  <2>1. \A n \in Nat \ {0} : n # 1 => n - 1 \in 1 .. n - 1 /\ n - 1 \in Nat \ {0} /\ n >= 2
                                      /\ (n - 1) + 1 = n /\ n - 1 \in 1 .. n
    OBVIOUS
  <2> QED
    BY <1>1, <2>1
<1>3. Parent \in Frames
  BY <1>2 DEF TypeInv, Parent
<1>4. Shape(Parent)
  BY <1>2 DEF TypeInv, Parent
<1>5. /\ Parent.part \in Sequences
      /\ Parent.pos \in DOMAIN Children(Parent) /\ Children(Parent)[Parent.pos] = stack[(Len(stack) - 1) + 1].task
  BY <1>2 DEF TypeInv, Parent
<1> QED
  BY <1>1, <1>2, <1>3, <1>4, <1>5

LEMMA ReturnEnds ==
  ASSUME TypeInv, Return
  PROVE  Closes \/ \E g : Pops(g)
<1>1. stack # <<>> /\ Top.part = "end" /\ log' = Noted("leave", Top.res)
  BY DEF Return
<1>2. CASE Len(stack) = 1
  BY <1>1, <1>2 DEF Return, Closes
<1>3. CASE Len(stack) # 1
  <2> DEFINE g == Told(Parent, Top.task, Top.res)
  <2>1. Hears(Parent, Top.task, Top.res, g)
    BY <1>1, <1>3, ParentFacts, TopFacts, ToldHears
  <2>2. /\ stack' = Append(SubSeq(stack, 1, Len(stack) - 2), g)
        /\ vars' = CASE Parent.part = "chart" /\ g.part = "end" -> Parent.saved
                     [] Parent.part = "block" /\ g.failed -> [Scope(Top) EXCEPT !.block_failed = TRUE]
                     [] OTHER -> Scope(Top)
    BY <1>3 DEF Return, Parent
  <2> HIDE DEF g
  <2>3. Pops(g)
    BY <1>1, <1>3, <2>1, <2>2 DEF Pops
  <2> QED
    BY <2>3
<1> QED
  BY <1>2, <1>3

LEMMA ScopeType ==
  ASSUME TypeInv, stack # <<>>
  PROVE  /\ Scope(Top) \in Scopes
         /\ Scope(Top).block_failed => vars.block_failed /\ Top.task.kind # "block"
         /\ \A b \in BOOLEAN : [Scope(Top) EXCEPT !.block_failed = b] \in Scopes
BY DEF TypeInv, Scope, Scopes

LEMMA PopsTyped ==
  ASSUME TypeInv, NEW g, Pops(g)
  PROVE  /\ TypeInv'
         /\ Len(stack') = Len(stack) - 1 /\ stack'[Len(stack) - 1] = g
         /\ \A i \in 1 .. Len(stack) - 2 : stack'[i] = stack[i]
<1>1. /\ stack \in Seq(Frames) /\ stack # <<>> /\ Len(stack) # 1
      /\ g \in Frames /\ Shape(g) /\ g.task = Parent.task
  BY DEF TypeInv, Pops, Hears
<1> DEFINE s == Append(SubSeq(stack, 1, Len(stack) - 2), g)
<1>2. /\ s \in Seq(Frames) /\ Len(s) = Len(stack) - 1
      /\ s[Len(stack) - 1] = g
      /\ \A i \in 1 .. Len(stack) - 2 : s[i] = stack[i]
  BY <1>1, Popped
<1> HIDE DEF s
<1>3. stack' = s
  BY DEF Pops, s
<1>4. vars' \in Scopes
  <2>1. Scope(Top) \in Scopes /\ [Scope(Top) EXCEPT !.block_failed = TRUE] \in Scopes
    BY <1>1, ScopeType
  <2>2. Parent.saved \in Scopes
    BY <1>1, ParentFacts DEF Frames
  <2>3. vars' \in {Parent.saved, Scope(Top), [Scope(Top) EXCEPT !.block_failed = TRUE]}
    BY DEF Pops
  <2> QED
    BY <2>1, <2>2, <2>3
<1>5. log' \in Seq(Entries)
  BY <1>1, TopFacts, NotedType DEF Pops
<1>6. Len(stack) \in Nat /\ Len(stack) >= 2
  BY <1>1, TopFacts, ParentFacts
<1>7. ASSUME NEW i \in 1 .. Len(stack') PROVE Shape(stack'[i])
  <2>1. CASE i = Len(stack) - 1
    BY <2>1, <1>1, <1>2, <1>3
  <2>2. CASE i # Len(stack) - 1
    <3>1. i \in 1 .. Len(stack) - 2 /\ i \in 1 .. Len(stack)
      BY <2>2, <1>2, <1>3, <1>6
    <3> QED
      BY <3>1, <1>2, <1>3 DEF TypeInv
  <2> QED
    BY <2>1, <2>2
<1>8. ASSUME NEW i \in 1 .. Len(stack') - 1
      PROVE  /\ stack'[i].part \in Sequences
             /\ stack'[i].pos \in DOMAIN Children(stack'[i])
             /\ Children(stack'[i])[stack'[i].pos] = stack'[i + 1].task
  <2>1. i \in 1 .. Len(stack) - 2 /\ i \in 1 .. Len(stack) - 1 /\ i + 1 \in 1 .. Len(stack) - 1
    BY <1>2, <1>3, <1>6
  <2>2. stack'[i] = stack[i]
    BY <2>1, <1>2, <1>3
  <2>3. stack'[i + 1].task = stack[i + 1].task
    <3>1. CASE i + 1 = Len(stack) - 1
      BY <3>1, <1>1, <1>2, <1>3 DEF Parent
    <3>2. CASE i + 1 # Len(stack) - 1
      <4>1. i + 1 \in 1 .. Len(stack) - 2
        BY <3>2, <2>1, <1>6
      <4> QED
        BY <4>1, <1>2, <1>3
    <3> QED
      BY <3>1, <3>2
  <2> QED
    BY <2>1, <2>2, <2>3 DEF TypeInv
<1>9. TypeInv'
  BY <1>2, <1>3, <1>4, <1>5, <1>7, <1>8 DEF TypeInv
<1> QED
  BY <1>2, <1>3, <1>9

LEMMA ClosesTyped ==
  ASSUME TypeInv, Closes
  PROVE  TypeInv'
<1>1. stack' = <<>> /\ stack # <<>>
  BY DEF Closes
<1>2. vars' \in Scopes
  BY <1>1, ScopeType DEF Closes
<1>3. log' \in Seq(Entries)
  BY <1>1, TopFacts, NotedType DEF Closes
<1>4. Len(stack') = 0 /\ stack' \in Seq(Frames)
  BY <1>1
<1> QED
  BY <1>2, <1>3, <1>4 DEF TypeInv

(* The four things a step can do to the stack.                             *)
LEMMA EveryStep ==
  ASSUME TypeInv, Next
  PROVE  (\E f : Turn(f)) \/ (\E f, g : Deepens(f, g)) \/ Closes \/ \E g : Pops(g)
BY SkipTurns, RefusedTurns, BeginTurns, NoCallTurns, PrepareTurns, AttemptTurns, TimedOutTurns, JudgeTurns,
   PartEndsTurns, ItemEndsTurns, EnterDeepens, ReturnEnds DEF Next

LEMMA InitTyped ==
  Init => TypeInv /\ stack # <<>> /\ log = <<>> /\ Len(stack) = 1 /\ ~vars.block_failed /\ stack[1].part = "start"
<1> SUFFICES ASSUME Init PROVE TypeInv /\ stack # <<>> /\ log = <<>> /\ Len(stack) = 1 /\ ~vars.block_failed
                               /\ stack[1].part = "start"
  OBVIOUS
<1>1. PICK t \in Trees : stack = <<Frame(t)>>
  BY DEF Init
<1>2. t \in Tasks
  BY TaskLogicAssumption DEF TreeAssumption
<1>3. Frame(t) \in Frames /\ Shape(Frame(t)) /\ Frame(t).part = "start"
  BY <1>2, FrameType
<1>4. stack \in Seq(Frames) /\ Len(stack) = 1 /\ stack[1] = Frame(t) /\ stack # <<>>
  BY <1>1, <1>3
<1>5. vars \in Scopes /\ ~vars.block_failed
  BY ResultTypes DEF Init
<1>6. log \in Seq(Entries) /\ log = <<>>
  BY DEF Init
<1> QED
  BY <1>3, <1>4, <1>5, <1>6 DEF TypeInv

LEMMA TypeStep ==
  ASSUME TypeInv, [Next]_state
  PROVE  TypeInv'
<1>1. ASSUME UNCHANGED state PROVE TypeInv'
  BY <1>1 DEF state, TypeInv
<1>2. ASSUME NEW f, Turn(f) PROVE TypeInv'
  BY <1>2, TurnTyped DEF Turn
<1> QED
  BY <1>1, <1>2, EveryStep, DeepensTyped, ClosesTyped, PopsTyped

(* The stack, the variables and the history are well formed: every frame   *)
(* is in a part its task has, and is of the task the frame below it has    *)
(* come to (runTaskOnHost calls runBlock and runChartTask, which call it   *)
(* for the task they have reached).                                        *)
THEOREM FramesLinked == Spec => []TypeInv
BY InitTyped, TypeStep, PTL DEF Spec
-----------------------------------------------------------------------------
(* A block around the n-th frame has failed, and no chart is between.      *)
Holder(n) ==
  \E i \in 1 .. n :
    /\ stack[i].task.kind = "block" /\ stack[i].failed
    /\ \A j \in i .. n : stack[j].part # "chart"

(* block_failed is set where such a block is, and so it was in what a      *)
(* chart has put aside.                                                    *)
ScopeInv ==
  /\ vars.block_failed => Holder(Len(stack))
  /\ \A j \in 1 .. Len(stack) : stack[j].part = "chart" /\ stack[j].saved.block_failed => Holder(j - 1)

(* A holder stays one while the frames up to it keep their task, stay      *)
(* failed and do not become charts.                                        *)
LEMMA HolderStays ==
  ASSUME NEW n \in Nat, Holder(n),
         \A i \in 1 .. n : /\ stack'[i].task = stack[i].task
                           /\ stack[i].failed => stack'[i].failed
                           /\ stack'[i].part = "chart" => stack[i].part = "chart"
  PROVE  Holder(n)'
<1>1. PICK i \in 1 .. n : /\ stack[i].task.kind = "block" /\ stack[i].failed
                          /\ \A j \in i .. n : stack[j].part # "chart"
  BY DEF Holder
<1>2. stack'[i].task.kind = "block" /\ stack'[i].failed
  BY <1>1
<1>3. \A j \in i .. n : stack'[j].part # "chart"
  BY <1>1
<1> QED
  BY <1>2, <1>3 DEF Holder

LEMMA TurnScope ==
  ASSUME TypeInv, ScopeInv, NEW f, Turn(f)
  PROVE  ScopeInv'
<1>0. PICK n : n = Len(stack)
  OBVIOUS
<1>1. /\ n \in Nat \ {0} /\ Len(stack') = n /\ stack'[n] = f /\ Top = stack[n]
      /\ \A i \in 1 .. n - 1 : stack'[i] = stack[i]
  BY <1>0, TurnFrames DEF TypeInv
<1>2. f.task = Top.task /\ f.failed = Top.failed /\ Rescopes(f) /\ Shape(f) /\ Shape(Top)
  BY TopFacts DEF Turn, Rescopes
<1>3. ASSUME NEW m \in 0 .. n - 1, Holder(m) PROVE Holder(m)'
  <2>1. \A i \in 1 .. m : stack'[i] = stack[i]
    BY <1>1
  <2> QED
    BY <1>3, <2>1, HolderStays
<1>4. ASSUME f.part # "chart", Holder(n) PROVE Holder(n)'
  <2>1. \A i \in 1 .. n : i = n \/ i \in 1 .. n - 1
    BY <1>1
  <2>2. \A i \in 1 .. n : /\ stack'[i].task = stack[i].task
                          /\ stack[i].failed => stack'[i].failed
                          /\ stack'[i].part = "chart" => stack[i].part = "chart"
    BY <1>1, <1>2, <1>4, <2>1
  <2> QED
    BY <1>1, <1>4, <2>2, HolderStays
<1>5. vars'.block_failed => Holder(n)'
  <2> SUFFICES ASSUME vars'.block_failed PROVE Holder(n)'
    OBVIOUS
  <2>1. CASE Top.part # "chart" /\ f.part # "chart" /\ (vars'.block_failed => vars.block_failed)
    BY <1>0, <1>4, <2>1 DEF ScopeInv
  <2>2. CASE Top.part = "chart" /\ f.part = "end" /\ vars'.block_failed = Top.saved.block_failed
    <3>1. Holder(n - 1)
      <4>1. n \in 1 .. n /\ stack[n].part = "chart" /\ stack[n].saved.block_failed
        BY <1>1, <2>2
      <4> QED
        BY <1>0, <4>1 DEF ScopeInv
    <3>2. Holder(n - 1)'
      BY <1>1, <1>3, <3>1
    <3>3. PICK i \in 1 .. n - 1 : /\ stack'[i].task.kind = "block" /\ stack'[i].failed
                                  /\ \A j \in i .. n - 1 : stack'[j].part # "chart"
      BY <3>2 DEF Holder
    <3>4. \A j \in i .. n : j = n \/ j \in i .. n - 1
      BY <1>1
    <3>5. \A j \in i .. n : stack'[j].part # "chart"
      BY <1>1, <2>2, <3>3, <3>4
    <3>6. i \in 1 .. n
      BY <1>1
    <3> QED
      BY <3>3, <3>5, <3>6 DEF Holder
  <2> QED
    BY <1>2, <2>1, <2>2 DEF Rescopes
<1>6. ASSUME NEW j \in 1 .. n, stack'[j].part = "chart", stack'[j].saved.block_failed
      PROVE  Holder(j - 1)'
  <2>1. CASE j # n
    <3>1. j \in 1 .. n - 1 /\ j \in 1 .. n
      BY <2>1, <1>1
    <3>2. stack[j].part = "chart" /\ stack[j].saved.block_failed
      BY <3>1, <1>1, <1>6
    <3>3. Holder(j - 1)
      BY <1>0, <3>1, <3>2 DEF ScopeInv
    <3>4. j - 1 \in 0 .. n - 1
      BY <1>1, <3>1
    <3> QED
      BY <1>3, <3>3, <3>4
  <2>2. CASE j = n /\ Top.part = "chart"
    <3>1. stack[n].part = "chart" /\ stack[n].saved.block_failed
      BY <1>1, <1>2, <1>6, <2>2 DEF Rescopes
    <3>2. Holder(j - 1)
      BY <1>0, <1>1, <2>2, <3>1 DEF ScopeInv
    <3> QED
      BY <1>1, <1>3, <2>2, <3>2
  <2>3. CASE j = n /\ Top.part # "chart"
    <3>1. vars.block_failed /\ Top.part = "start" /\ f.part = "chart"
      BY <1>1, <1>2, <1>6, <2>3 DEF Rescopes
    <3>2. Top.task.kind # "block"
      BY <1>2, <3>1 DEF Shape
    <3>3. PICK i \in 1 .. n : /\ stack[i].task.kind = "block" /\ stack[i].failed
                              /\ \A k \in i .. n : stack[k].part # "chart"
      BY <1>0, <3>1 DEF ScopeInv, Holder
    <3>4. i \in 1 .. n - 1
      BY <1>1, <3>2, <3>3
    <3>5. \A k \in i .. n - 1 : k \in i .. n
      BY <1>1
    <3>6. Holder(n - 1)
      BY <3>3, <3>4, <3>5 DEF Holder
    <3> QED
      BY <1>1, <1>3, <2>3, <3>6
  <2> QED
    BY <2>1, <2>2, <2>3
<1> QED
  BY <1>0, <1>1, <1>5, <1>6 DEF ScopeInv

LEMMA DeepensScope ==
  ASSUME TypeInv, ScopeInv, NEW f, NEW g, Deepens(f, g)
  PROVE  ScopeInv'
<1>0. PICK n : n = Len(stack)
  OBVIOUS
<1>1. /\ n \in Nat \ {0} /\ Len(stack') = n + 1 /\ stack'[n] = f /\ stack'[n + 1] = g /\ Top = stack[n]
      /\ \A i \in 1 .. n - 1 : stack'[i] = stack[i]
  BY <1>0, DeepensFrames DEF TypeInv
<1>2. /\ f.task = Top.task /\ f.failed = Top.failed /\ f.part = Top.part /\ f.saved = Top.saved
      /\ g.part = "start" /\ vars' = vars
  BY DEF Deepens
<1>3. \A i \in 1 .. n : i = n \/ i \in 1 .. n - 1
  BY <1>1
<1>4. \A i \in 1 .. n : /\ stack'[i].task = stack[i].task
                        /\ stack[i].failed => stack'[i].failed
                        /\ stack'[i].part = stack[i].part
                        /\ stack'[i].saved = stack[i].saved
  BY <1>1, <1>2, <1>3
<1>5. ASSUME NEW m \in 0 .. n, Holder(m) PROVE Holder(m)'
  <2>1. \A i \in 1 .. m : i \in 1 .. n
    BY <1>1
  <2> QED
    BY <1>4, <1>5, <2>1, HolderStays
<1>6. vars'.block_failed => Holder(n + 1)'
  <2> SUFFICES ASSUME vars'.block_failed PROVE Holder(n + 1)'
    OBVIOUS
  <2>1. Holder(n)'
    <3>1. Holder(n)
      BY <1>0, <1>2 DEF ScopeInv
    <3> QED
      BY <1>1, <1>5, <3>1
  <2>2. PICK i \in 1 .. n : /\ stack'[i].task.kind = "block" /\ stack'[i].failed
                            /\ \A j \in i .. n : stack'[j].part # "chart"
    BY <2>1 DEF Holder
  <2>3. \A j \in i .. n + 1 : j = n + 1 \/ j \in i .. n
    BY <1>1
  <2>4. \A j \in i .. n + 1 : stack'[j].part # "chart"
    BY <1>1, <1>2, <2>2, <2>3
  <2>5. i \in 1 .. n + 1
    BY <1>1
  <2> QED
    BY <2>2, <2>4, <2>5 DEF Holder
<1>7. ASSUME NEW j \in 1 .. n + 1, stack'[j].part = "chart", stack'[j].saved.block_failed
      PROVE  Holder(j - 1)'
  <2>1. j \in 1 .. n
    BY <1>1, <1>2, <1>7
  <2>2. Holder(j - 1)
    BY <1>0, <1>4, <1>7, <2>1 DEF ScopeInv
  <2> QED
    BY <1>1, <1>5, <2>1, <2>2
<1> QED
  BY <1>0, <1>1, <1>6, <1>7 DEF ScopeInv
LEMMA PopsScope ==
  ASSUME TypeInv, ScopeInv, NEW g, Pops(g)
  PROVE  ScopeInv'
<1>0. PICK n : n = Len(stack)
  OBVIOUS
<1>1. /\ n \in Nat /\ n >= 2 /\ Len(stack') = n - 1 /\ stack'[n - 1] = g /\ Parent = stack[n - 1]
      /\ Top = stack[n]
      /\ \A i \in 1 .. n - 2 : stack'[i] = stack[i]
  BY <1>0, PopsTyped, ParentFacts, TopFacts DEF Pops, Parent
<1>2. /\ g.task = Parent.task /\ g.saved = Parent.saved /\ (Parent.failed => g.failed)
      /\ g.part = "chart" => Parent.part = "chart"
      /\ Shape(Parent) /\ Top.part = "end"
  BY ParentFacts DEF Pops, Hears
<1>3. /\ Scope(Top).block_failed => vars.block_failed /\ Top.task.kind # "block"
      /\ vars' = CASE Parent.part = "chart" /\ g.part = "end" -> Parent.saved
                   [] Parent.part = "block" /\ g.failed -> [Scope(Top) EXCEPT !.block_failed = TRUE]
                   [] OTHER -> Scope(Top)
  BY ScopeType DEF Pops
<1>4. \A i \in 1 .. n - 1 : /\ stack'[i].task = stack[i].task
                            /\ stack[i].failed => stack'[i].failed
                            /\ stack'[i].part = "chart" => stack[i].part = "chart"
                            /\ stack'[i].saved = stack[i].saved
  <2>1. \A i \in 1 .. n - 1 : i = n - 1 \/ i \in 1 .. n - 2
    BY <1>1
  <2> QED
    BY <1>1, <1>2, <2>1
<1>5. ASSUME NEW m \in 0 .. n - 1, Holder(m) PROVE Holder(m)'
  <2>1. \A i \in 1 .. m : i \in 1 .. n - 1
    BY <1>1
  <2> QED
    BY <1>4, <1>5, <2>1, HolderStays
<1>6. vars'.block_failed => Holder(n - 1)'
  <2> SUFFICES ASSUME vars'.block_failed PROVE Holder(n - 1)'
    OBVIOUS
  <2>1. n - 1 \in 1 .. n - 1 /\ n - 1 \in 0 .. n - 1 /\ n - 1 \in 1 .. n /\ n - 2 \in 0 .. n - 1
    BY <1>1
  <2>2. CASE Parent.part = "chart" /\ g.part = "end"
    <3>1. stack[n - 1].saved.block_failed /\ stack[n - 1].part = "chart"
      BY <1>1, <1>3, <2>2
    <3>2. Holder((n - 1) - 1)
      BY <1>0, <2>1, <3>1 DEF ScopeInv
    <3>3. (n - 1) - 1 = n - 2
      BY <1>1
    <3>4. Holder(n - 2)'
      BY <1>5, <2>1, <3>2, <3>3
    <3>5. PICK i \in 1 .. n - 2 : /\ stack'[i].task.kind = "block" /\ stack'[i].failed
                                  /\ \A j \in i .. n - 2 : stack'[j].part # "chart"
      BY <3>4 DEF Holder
    <3>6. \A j \in i .. n - 1 : j = n - 1 \/ j \in i .. n - 2
      BY <1>1
    <3>7. \A j \in i .. n - 1 : stack'[j].part # "chart"
      BY <1>1, <2>2, <3>5, <3>6
    <3>8. i \in 1 .. n - 1
      BY <1>1
    <3> QED
      BY <3>5, <3>7, <3>8 DEF Holder
  <2>3. CASE Parent.part = "block" /\ g.failed
    <3>1. stack'[n - 1].task.kind = "block" /\ stack'[n - 1].failed /\ stack'[n - 1].part # "chart"
      BY <1>1, <1>2, <2>3 DEF Shape
    <3>2. \A j \in n - 1 .. n - 1 : j = n - 1
      BY <1>1
    <3> QED
      BY <2>1, <3>1, <3>2 DEF Holder
  <2>4. CASE ~(Parent.part = "chart" /\ g.part = "end") /\ ~(Parent.part = "block" /\ g.failed)
    <3>1. vars' = Scope(Top)
      BY <1>3, <2>4
    <3>2. vars.block_failed /\ Top.task.kind # "block"
      BY <1>3, <3>1
    <3>3. PICK i \in 1 .. n : /\ stack[i].task.kind = "block" /\ stack[i].failed
                              /\ \A k \in i .. n : stack[k].part # "chart"
      BY <1>0, <3>2 DEF ScopeInv, Holder
    <3>4. i # n
      BY <1>1, <3>2, <3>3
    <3>5. i \in 1 .. n - 1
      BY <1>1, <3>3, <3>4
    <3>6. \A k \in i .. n - 1 : k \in i .. n
      BY <1>1
    <3>7. Holder(n - 1)
      BY <3>3, <3>5, <3>6 DEF Holder
    <3> QED
      BY <1>5, <2>1, <3>7
  <2> QED
    BY <2>2, <2>3, <2>4
<1>7. ASSUME NEW j \in 1 .. n - 1, stack'[j].part = "chart", stack'[j].saved.block_failed
      PROVE  Holder(j - 1)'
  <2>1. j \in 1 .. n /\ j - 1 \in 0 .. n - 1
    BY <1>1
  <2>2. Holder(j - 1)
    BY <1>0, <1>4, <1>7, <2>1 DEF ScopeInv
  <2> QED
    BY <1>5, <2>1, <2>2
<1> QED
  BY <1>0, <1>1, <1>6, <1>7 DEF ScopeInv

LEMMA ClosesScope ==
  ASSUME TypeInv, ScopeInv, Closes
  PROVE  ScopeInv'
<1>1. Len(stack) = 1 /\ stack' = <<>> /\ Len(stack') = 0 /\ vars' = Scope(Top) /\ Top = stack[1] /\ Shape(Top)
  BY TopFacts DEF Closes
<1>2. ~vars'.block_failed
  <2> SUFFICES ASSUME vars'.block_failed PROVE FALSE
    OBVIOUS
  <2>1. vars.block_failed /\ Top.task.kind # "block"
    BY <1>1, ScopeType DEF Closes
  <2>2. PICK i \in 1 .. 1 : stack[i].task.kind = "block"
    BY <1>1, <2>1 DEF ScopeInv, Holder
  <2>3. i = 1
    OBVIOUS
  <2> QED
    BY <1>1, <2>1, <2>2, <2>3
<1>3. 1 .. Len(stack') = {}
  BY <1>1
<1> QED
  BY <1>2, <1>3 DEF ScopeInv

LEMMA ScopeStep ==
  ASSUME TypeInv, ScopeInv, [Next]_state
  PROVE  ScopeInv'
<1>1. ASSUME UNCHANGED state PROVE ScopeInv'
  BY <1>1 DEF state, ScopeInv, Holder
<1> QED
  BY <1>1, EveryStep, TurnScope, DeepensScope, PopsScope, ClosesScope

LEMMA InitScope == Init => ScopeInv
<1> SUFFICES ASSUME Init PROVE ScopeInv
  OBVIOUS
<1>1. ~vars.block_failed /\ Len(stack) = 1 /\ stack[1].part = "start"
  BY InitTyped
<1>2. \A j \in 1 .. 1 : j = 1
  OBVIOUS
<1> QED
  BY <1>1, <1>2 DEF ScopeInv

(* runBlock sets block_failed for the tasks of its rescue and deletes it   *)
(* when it returns, and runChartTask puts the variables of the tasks       *)
(* around it aside: whatever is nested in what, a task sees block_failed   *)
(* only below a block that did fail, in the scope of that block.           *)
THEOREM FailureScoped == Spec => []FailureInScope
<1>1. TypeInv /\ ScopeInv => FailureInScope
  <2> SUFFICES ASSUME TypeInv, ScopeInv, vars.block_failed
               PROVE  \E i \in DOMAIN stack :
                        /\ stack[i].task.kind = "block" /\ stack[i].failed
                        /\ \A j \in i .. Len(stack) : stack[j].part # "chart"
    BY DEF FailureInScope
  <2>1. DOMAIN stack = 1 .. Len(stack)
    BY DEF TypeInv
  <2> QED
    BY <2>1 DEF ScopeInv, Holder
<1> QED
  BY <1>1, InitTyped, InitScope, TypeStep, ScopeStep, PTL DEF Spec
-----------------------------------------------------------------------------
(* Paths.  A path names the task at n of another when they are the same    *)
(* down to it.                                                             *)
Place(f) == [name |-> f.task.name, part |-> f.part, item |-> f.item]

Shares(q, p, n) == (\A j \in 1 .. n - 1 : q[j] = p[j]) /\ q[n].name = p[n].name

(* The n-th frame is the task at n of a path.                              *)
Along(q, n) ==
  /\ n \in 1 .. Len(stack) /\ n \in 1 .. Len(q)
  /\ \A j \in 1 .. n - 1 : q[j] = Place(stack[j])
  /\ q[n].name = stack[n].task.name

LEMMA UnderShares ==
  ASSUME NEW e, e.path \in Seq(Places), NEW p \in Seq(Places), NEW n \in 1 .. Len(p)
  PROVE  Under(e, SubSeq(p, 1, n)) <=> Len(e.path) > n /\ Shares(e.path, p, n)
<1> DEFINE q == e.path
           s == SubSeq(p, 1, n)
<1>1. Len(p) \in Nat /\ Len(q) \in Nat /\ n \in Nat \ {0} /\ n <= Len(p) /\ n - 1 \in Nat
  BY LenProperties
<1>2. q \in Seq(Places) /\ \A i \in 1 .. Len(p) : p[i] \in Places
  OBVIOUS
<1>3. /\ s \in Seq(Places) /\ Len(s) = n
      /\ \A i \in 1 .. n : s[i] = p[i]
  <2>1. \A i \in 1 .. n : p[i] \in Places
    BY <1>1, <1>2
  <2>2. 1 \in Int /\ n \in Int
    BY <1>1
  <2>3. /\ s \in Seq(Places) /\ Len(s) = IF 1 <= n THEN n - 1 + 1 ELSE 0
        /\ \A i \in 1 .. n - 1 + 1 : s[i] = p[1 + i - 1]
    BY <2>1, <2>2, SubSeqProperties
  <2> HIDE DEF s
  <2>4. \A i \in 1 .. n : i \in 1 .. n - 1 + 1 /\ 1 + i - 1 = i
    BY <1>1
  <2> QED
    BY <1>1, <2>3, <2>4
<1>4. Under(e, s) <=> /\ Len(q) > Len(s) /\ Front(s) = SubSeq(q, 1, Len(s) - 1)
                      /\ q[Len(s)].name = Last(s).name
  BY DEF Under
<1> HIDE DEF q, s
<1>5. Last(s) = p[n]
  BY <1>1, <1>3 DEF Last
<1>6. ASSUME Len(q) > n
      PROVE  Front(s) = SubSeq(q, 1, n - 1) <=> \A j \in 1 .. n - 1 : q[j] = p[j]
  <2> DEFINE u == Front(s)
             v == SubSeq(q, 1, n - 1)
  <2>1. u \in Seq(Places) /\ Len(u) = n - 1 /\ \A j \in 1 .. n - 1 : u[j] = p[j]
    <3>1. s # <<>>
      BY <1>1, <1>3, EmptySeq
    <3>2. u = SubSeq(s, 1, n - 1)
      BY <1>3 DEF Front
    <3>3. \A j \in 1 .. n - 1 : s[j] \in Places /\ s[j] = p[j]
      BY <1>1, <1>2, <1>3
    <3>4. 1 \in Int /\ n - 1 \in Int
      BY <1>1
    <3>5. /\ u \in Seq(Places) /\ Len(u) = IF 1 <= n - 1 THEN (n - 1) - 1 + 1 ELSE 0
          /\ \A i \in 1 .. (n - 1) - 1 + 1 : u[i] = s[1 + i - 1]
      BY <3>2, <3>3, <3>4, SubSeqProperties
    <3> HIDE DEF u
    <3>6. \A i \in 1 .. n - 1 : i \in 1 .. (n - 1) - 1 + 1 /\ 1 + i - 1 = i
      BY <1>1
    <3> QED
      BY <1>1, <3>3, <3>5, <3>6
  <2>2. v \in Seq(Places) /\ Len(v) = n - 1 /\ \A j \in 1 .. n - 1 : v[j] = q[j]
    <3>3. \A j \in 1 .. n - 1 : q[j] \in Places
      <4>1. \A j \in 1 .. n - 1 : j \in 1 .. Len(q)
        BY <1>1, <1>6
      <4> QED
        BY <1>2, <4>1
    <3>4. 1 \in Int /\ n - 1 \in Int
      BY <1>1
    <3>5. /\ v \in Seq(Places) /\ Len(v) = IF 1 <= n - 1 THEN (n - 1) - 1 + 1 ELSE 0
          /\ \A i \in 1 .. (n - 1) - 1 + 1 : v[i] = q[1 + i - 1]
      BY <3>3, <3>4, SubSeqProperties
    <3> HIDE DEF v
    <3>6. \A i \in 1 .. n - 1 : i \in 1 .. (n - 1) - 1 + 1 /\ 1 + i - 1 = i
      BY <1>1
    <3> QED
      BY <1>1, <3>5, <3>6
  <2> HIDE DEF u, v
  <2>3. u = v => \A j \in 1 .. n - 1 : q[j] = p[j]
    BY <2>1, <2>2
  <2>4. (\A j \in 1 .. n - 1 : q[j] = p[j]) => u = v
    BY <2>1, <2>2, SeqEqual
  <2> QED
    BY <2>3, <2>4 DEF u, v
<1>7. Under(e, s) <=> Len(q) > n /\ Front(s) = SubSeq(q, 1, n - 1) /\ q[n].name = p[n].name
  BY <1>3, <1>4, <1>5
<1>8. Under(e, s) <=> Len(q) > n /\ Shares(q, p, n)
  BY <1>6, <1>7 DEF Shares
<1> QED
  BY <1>8 DEF q, s

LEMMA UnderIs ==
  ASSUME NEW e, e.path \in Seq(Places), NEW p \in Seq(Places) \ {<<>>}
  PROVE  Under(e, p) <=> Len(e.path) > Len(p) /\ Shares(e.path, p, Len(p))
<1>1. Len(p) \in 1 .. Len(p)
  BY EmptySeq
<1>2. SubSeq(p, 1, Len(p)) = p
  OBVIOUS
<1> QED
  BY <1>1, <1>2, UnderShares

(* The history only grows.                                                 *)
LEMMA EventIs ==
  ASSUME TypeInv, NEW what, NEW e
  PROVE  e \in Events(what) <=> \E i \in 1 .. Len(log) : e = log[i] /\ e.what = what
BY DEF Events, TypeInv

LEMMA EventType ==
  ASSUME TypeInv, NEW what, NEW e \in Events(what)
  PROVE  /\ e \in Entries /\ e.what = what /\ e.res \in Results
         /\ e.path \in Seq(Places) \ {<<>>} /\ Len(e.path) \in Nat \ {0}
<1>1. PICK i \in 1 .. Len(log) : e = log[i] /\ e.what = what
  BY EventIs
<1>2. e \in Entries
  BY <1>1 DEF TypeInv
<1>3. e.path \in Seq(Places) \ {<<>>} /\ e.res \in Results
  BY <1>2 DEF Entries
<1> QED
  BY <1>1, <1>2, <1>3, EmptySeq

LEMMA EventsGrow ==
  ASSUME TypeInv, TypeInv', stack # <<>>, NEW r \in Results, NEW what \in {"enter", "item", "leave"},
         log' = Noted(what, r), NEW w, NEW e
  PROVE  (e \in Events(w))' <=>
           e \in Events(w) \/ (w = what /\ e = [what |-> what, path |-> Path, res |-> r])
<1> DEFINE x == [what |-> what, path |-> Path, res |-> r]
<1>1. x.what = what
  OBVIOUS
<1>2. /\ Len(log') = Len(log) + 1 /\ Len(log) \in Nat /\ log'[Len(log) + 1] = x
      /\ \A i \in 1 .. Len(log) : log'[i] = log[i]
  <2> DEFINE s == Noted(what, r)
  <2>1. /\ Len(s) = Len(log) + 1 /\ Len(log) \in Nat /\ s[Len(log) + 1] = x
        /\ \A i \in 1 .. Len(log) : s[i] = log[i]
    BY NotedType
  <2>2. log' = s
    OBVIOUS
  <2> HIDE DEF s, x
  <2> QED
    BY <2>1, <2>2
<1> HIDE DEF x
<1>3. (e \in Events(w))' <=> \E i \in 1 .. Len(log') : e = log'[i] /\ e.what = w
  BY DEF Events, TypeInv
<1>4. e \in Events(w) <=> \E i \in 1 .. Len(log) : e = log[i] /\ e.what = w
  BY EventIs
<1>5. \A i \in 1 .. Len(log') : i = Len(log) + 1 \/ i \in 1 .. Len(log)
  BY <1>2
<1>6. Len(log) + 1 \in 1 .. Len(log') /\ \A i \in 1 .. Len(log) : i \in 1 .. Len(log')
  BY <1>2
<1>7. (e \in Events(w))' <=> e \in Events(w) \/ (w = what /\ e = x)
  BY <1>1, <1>2, <1>3, <1>4, <1>5, <1>6
<1> QED
  BY <1>7 DEF x

LEMMA EventsStay ==
  ASSUME log' = log, NEW w
  PROVE  Events(w)' = Events(w)
BY DEF Events

(* A name is that of one task.                                             *)
LEMMA NamedTask ==
  ASSUME NEW t \in Tasks
  PROVE  Named(t.name) = t
BY TaskLogicAssumption DEF PlaceAssumption, Named
-----------------------------------------------------------------------------
(* always.  A block that began and has something to do in always has done  *)
(* it, or is on its way there: its frame has not come to always, has not   *)
(* looked for a task yet, or is waiting for one.                           *)
HasAlways(e) ==
  Of(e).kind = "block" /\ \E child \in ToSet(Of(e).always) : BlockSelected(child, Of(e).tags)

Attempted(e) == \E l \in Events("leave") : Under(l, e.path) /\ l.path[Len(e.path)].part = "always"

Underway(e) ==
  LET n == Len(e.path)
  IN /\ Along(e.path, n)
     /\ \/ stack[n].part \in {"block", "rescue"}
        \/ stack[n].part = "always" /\ (stack[n].pos = 0 \/ Len(stack) > n)

AlwaysInv == \A e \in Events("enter") : HasAlways(e) => Attempted(e) \/ Underway(e)

LEMMA OptsStay ==
  ASSUME [Next]_state
  PROVE  opts' = opts
<1>1. ASSUME NEW r, EndItem(r) PROVE opts' = opts
  BY <1>1 DEF EndItem
<1>2. ASSUME NoCall PROVE opts' = opts
  BY <1>1, <1>2 DEF NoCall
<1>3. ASSUME Attempt PROVE opts' = opts
  BY <1>1, <1>3 DEF Attempt
<1>4. ASSUME TimedOut PROVE opts' = opts
  BY <1>1, <1>4 DEF TimedOut
<1>5. ASSUME Skip \/ Refused \/ Begin \/ Prepare \/ Judge PROVE opts' = opts
  BY <1>5 DEF Skip, Refused, Begin, Prepare, Judge
<1>6. ASSUME Enter \/ PartEnds \/ ItemEnds \/ Return PROVE opts' = opts
  BY <1>6 DEF Enter, PartEnds, ItemEnds, Return
<1>7. ASSUME UNCHANGED state PROVE opts' = opts
  BY <1>7 DEF state
<1> QED
  BY <1>2, <1>3, <1>4, <1>5, <1>6, <1>7 DEF Next

(* The task of a frame along a whole path is the task of the event.        *)
LEMMA AlongTask ==
  ASSUME TypeInv, NEW e, e.path \in Seq(Places) \ {<<>>}, Along(e.path, Len(e.path))
  PROVE  Of(e) = stack[Len(e.path)].task
<1>1. Last(e.path) = e.path[Len(e.path)]
  BY DEF Last
<1>2. stack[Len(e.path)].task \in Tasks
  <2>1. Len(e.path) \in 1 .. Len(stack)
    BY DEF Along
  <2>2. stack[Len(e.path)] \in Frames
    BY <2>1 DEF TypeInv
  <2> QED
    BY <2>2 DEF Frames
<1> QED
  BY <1>1, <1>2, NamedTask DEF Along, Of

LEMMA AlwaysAhead ==
  ASSUME NEW f \in Frames, f.part = "always", f.pos = 0,
         NEW child \in ToSet(f.task.always), BlockSelected(child, f.task.tags)
  PROVE  Ahead(f) # {}
<1>1. f.task.always \in Seq(Tasks)
  BY TaskLogicAssumption DEF TaskAssumption, Frames
<1>2. PICK i \in DOMAIN f.task.always : f.task.always[i] = child
  BY DEF ToSet
<1>3. i \in Nat /\ i > 0
  BY <1>1, <1>2
<1>4. Children(f) = f.task.always
  BY DEF Children
<1>5. Selected(f, child)
  BY DEF Selected
<1> QED
  BY <1>2, <1>3, <1>4, <1>5 DEF Ahead

LEMMA HasAlwaysStays ==
  ASSUME opts' = opts, NEW e
  PROVE  HasAlways(e)' <=> HasAlways(e)
BY DEF HasAlways, BlockSelected, Of, Named

(* Frames up to m are where they were.                                     *)
LEMMA AlongStays ==
  ASSUME NEW q, NEW n \in Nat \ {0}, Along(q, n), n <= Len(stack'),
         \A i \in 1 .. n - 1 : stack'[i] = stack[i], stack'[n].task = stack[n].task
  PROVE  Along(q, n)'
BY DEF Along, Place

LEMMA AttemptedStays ==
  ASSUME NEW e, Attempted(e), \A x : x \in Events("leave") => (x \in Events("leave"))'
  PROVE  Attempted(e)'
<1>1. PICK l \in Events("leave") : Under(l, e.path) /\ l.path[Len(e.path)].part = "always"
  BY DEF Attempted
<1>2. (l \in Events("leave"))'
  BY <1>1
<1> QED
  BY <1>1, <1>2 DEF Attempted, Under

LEMMA PathAlong ==
  ASSUME TypeInv, stack # <<>>
  PROVE  /\ Len(Path) = Len(stack) /\ Along(Path, Len(stack)) /\ Path \in Seq(Places) \ {<<>>}
         /\ \A j \in 1 .. Len(stack) : Path[j] = Place(stack[j]) /\ Path[j].name = stack[j].task.name
                                       /\ Path[j].part = stack[j].part
<1>1. /\ Path \in Seq(Places) \ {<<>>} /\ Len(Path) = Len(stack)
      /\ \A i \in 1 .. Len(stack) :
           Path[i] = [name |-> stack[i].task.name, part |-> stack[i].part, item |-> stack[i].item]
  BY NotedType, ResultTypes
<1>2. Len(stack) \in Nat \ {0}
  BY TopFacts
<1>3. \A j \in 1 .. Len(stack) : Path[j] = Place(stack[j]) /\ Path[j].name = stack[j].task.name
                                 /\ Path[j].part = stack[j].part
  BY <1>1 DEF Place
<1>4. Len(stack) \in 1 .. Len(stack) /\ \A j \in 1 .. Len(stack) - 1 : j \in 1 .. Len(stack)
  BY <1>2
<1> QED
  BY <1>1, <1>3, <1>4 DEF Along
LEMMA TurnAlways ==
  ASSUME TypeInv, TypeInv', AlwaysInv, opts' = opts, NEW f, Turn(f)
  PROVE  AlwaysInv'
<1>0. PICK n : n = Len(stack)
  OBVIOUS
<1>1. /\ n \in Nat \ {0} /\ Len(stack') = n /\ stack'[n] = f /\ Top = stack[n]
      /\ \A i \in 1 .. n - 1 : stack'[i] = stack[i]
  BY <1>0, TurnFrames DEF TypeInv
<1>2. f.task = Top.task /\ Moves(f) /\ Answers(f) /\ f \in Frames /\ stack # <<>> /\ f.part \in Parts
  BY DEF Turn, Frames
<1>3. \A w, x : x \in Events(w) => (x \in Events(w))'
  <2>1. CASE log' = log
    BY <2>1, EventsStay
  <2>2. ASSUME NEW r \in Results, NEW what \in {"enter", "item"}, log' = Noted(what, r)
        PROVE  \A w, x : x \in Events(w) => (x \in Events(w))'
    BY <1>2, <2>2, EventsGrow
  <2> QED
    BY <1>2, <2>1, <2>2, ResultTypes DEF Answers
<1>4. ASSUME NEW e \in Events("enter"), HasAlways(e)
      PROVE  Attempted(e)' \/ Underway(e)'
  <2>1. e.path \in Seq(Places) \ {<<>>} /\ Len(e.path) \in Nat \ {0}
    BY EventType
  <2>2. PICK m : m = Len(e.path)
    OBVIOUS
  <2>3. CASE Attempted(e)
    BY <1>3, <2>3, AttemptedStays
  <2>4. CASE Underway(e)
    <3>1. /\ Along(e.path, m) /\ m \in 1 .. n
          /\ \/ stack[m].part \in {"block", "rescue"}
             \/ stack[m].part = "always" /\ (stack[m].pos = 0 \/ n > m)
      BY <1>0, <2>2, <2>4 DEF Underway, Along
    <3>2. Along(e.path, m)'
      <4>1. \A i \in 1 .. m - 1 : i \in 1 .. n - 1
        BY <1>1, <3>1
      <4>2. stack'[m].task = stack[m].task
        BY <1>1, <1>2, <3>1
      <4> QED
        BY <1>1, <2>1, <2>2, <3>1, <4>1, <4>2, AlongStays
    <3>3. \/ stack'[m].part \in {"block", "rescue"}
          \/ stack'[m].part = "always" /\ (stack'[m].pos = 0 \/ n > m)
      <4>1. CASE m # n
        BY <1>1, <3>1, <4>1
      <4>2. CASE m = n /\ Top.part \in {"block", "rescue"}
        <5>1. f.part \in {"block", "rescue"} \/ (f.part = "always" /\ f.pos = 0)
          BY <1>2, <4>2 DEF Moves, Parts, Sequences
        <5> QED
          BY <1>1, <4>2, <5>1
      <4>3. CASE m = n /\ Top.part = "always"
        <5>1. Top.pos = 0
          BY <1>1, <3>1, <4>3
        <5>2. f.part = "end" /\ Ahead(Top) = {}
          BY <1>2, <4>3 DEF Moves, Parts, Sequences
        <5>3. Of(e) = Top.task
          BY <1>1, <2>1, <2>2, <3>1, <4>3, AlongTask
        <5>4. PICK child \in ToSet(Top.task.always) : BlockSelected(child, Top.task.tags)
          BY <1>4, <5>3 DEF HasAlways
        <5>5. Top \in Frames
          BY <1>2, TopFacts
        <5> QED
          BY <4>3, <5>1, <5>2, <5>4, <5>5, AlwaysAhead
      <4> QED
        BY <1>1, <3>1, <4>1, <4>2, <4>3
    <3> QED
      BY <1>1, <2>2, <3>2, <3>3 DEF Underway
  <2> QED
    BY <1>4, <2>3, <2>4 DEF AlwaysInv
<1>5. ASSUME NEW e, NEW r, e = [what |-> "enter", path |-> Path, res |-> r],
             f.task.kind = "block" => f.part = "block", HasAlways(e)
      PROVE  Underway(e)'
  <2>2. /\ e.path = Path /\ Len(e.path) = n /\ Along(e.path, n) /\ e.path \in Seq(Places) \ {<<>>}
    BY <1>0, <1>2, <1>5, PathAlong
  <2>3. Of(e) = Top.task
    BY <1>1, <2>2, AlongTask
  <2>4. f.part = "block"
    BY <1>2, <1>5, <2>3 DEF HasAlways
  <2>5. Along(e.path, n)'
    BY <1>1, <1>2, <2>2, AlongStays
  <2> QED
    BY <1>1, <2>2, <2>4, <2>5 DEF Underway
<1>6. ASSUME NEW e, (e \in Events("enter"))', HasAlways(e)'
      PROVE  Attempted(e)' \/ Underway(e)'
  <2>1. HasAlways(e)
    BY <1>6, HasAlwaysStays
  <2>2. CASE e \in Events("enter")
    BY <1>4, <2>1, <2>2
  <2>3. CASE e \notin Events("enter")
    <3>1. ~(log' = log)
      BY <1>6, <2>3, EventsStay
    <3>2. ASSUME NEW r \in Results, log' = Noted("item", r) PROVE FALSE
      BY <1>2, <1>6, <2>3, <3>2, EventsGrow
    <3>3. log' = Noted("enter", Ok) /\ (f.task.kind = "block" => f.part = "block")
      BY <1>2, <3>1, <3>2 DEF Answers
    <3>4. e = [what |-> "enter", path |-> Path, res |-> Ok]
      BY <1>2, <1>6, <2>3, <3>3, EventsGrow, ResultTypes
    <3> QED
      BY <1>5, <2>1, <3>3, <3>4
  <2> QED
    BY <2>2, <2>3
<1> QED
  BY <1>6 DEF AlwaysInv

LEMMA DeepensAlways ==
  ASSUME TypeInv, TypeInv', AlwaysInv, opts' = opts, NEW f, NEW g, Deepens(f, g)
  PROVE  AlwaysInv'
<1>0. PICK n : n = Len(stack)
  OBVIOUS
<1>1. /\ n \in Nat \ {0} /\ Len(stack') = n + 1 /\ stack'[n] = f /\ stack'[n + 1] = g /\ Top = stack[n]
      /\ \A i \in 1 .. n - 1 : stack'[i] = stack[i]
  BY <1>0, DeepensFrames DEF TypeInv
<1>2. f.task = Top.task /\ f.part = Top.part /\ log' = log
  BY DEF Deepens
<1>3. ASSUME NEW e, (e \in Events("enter"))', HasAlways(e)'
      PROVE  Attempted(e)' \/ Underway(e)'
  <2>1. e \in Events("enter") /\ HasAlways(e)
    BY <1>2, <1>3, EventsStay, HasAlwaysStays
  <2>2. e.path \in Seq(Places) \ {<<>>} /\ Len(e.path) \in Nat \ {0}
    BY <2>1, EventType
  <2>3. PICK m : m = Len(e.path)
    OBVIOUS
  <2>4. CASE Attempted(e)
    BY <1>2, <2>4, EventsStay, AttemptedStays
  <2>5. CASE Underway(e)
    <3>1. /\ Along(e.path, m) /\ m \in 1 .. n
          /\ stack[m].part \in {"block", "rescue", "always"}
      BY <1>0, <2>3, <2>5 DEF Underway, Along
    <3>2. stack'[m].task = stack[m].task /\ stack'[m].part = stack[m].part
      BY <1>1, <1>2, <3>1
    <3>3. Along(e.path, m)'
      <4>1. \A i \in 1 .. m - 1 : i \in 1 .. n - 1
        BY <1>1, <3>1
      <4> QED
        BY <1>1, <2>2, <2>3, <3>1, <3>2, <4>1, AlongStays
    <3>4. n + 1 > m
      BY <1>1, <3>1
    <3> QED
      BY <1>1, <2>3, <3>1, <3>2, <3>3, <3>4 DEF Underway
  <2> QED
    BY <2>1, <2>4, <2>5 DEF AlwaysInv
<1> QED
  BY <1>3 DEF AlwaysInv

LEMMA PopsAlways ==
  ASSUME TypeInv, TypeInv', AlwaysInv, opts' = opts, NEW g, Pops(g)
  PROVE  AlwaysInv'
<1>0. PICK n : n = Len(stack)
  OBVIOUS
<1>1. /\ n \in Nat /\ n >= 2 /\ Len(stack') = n - 1 /\ stack'[n - 1] = g /\ Parent = stack[n - 1]
      /\ Top = stack[n] /\ stack # <<>> /\ Top.part = "end" /\ Top.res \in Results
      /\ \A i \in 1 .. n - 2 : stack'[i] = stack[i]
  BY <1>0, PopsTyped, ParentFacts, TopFacts DEF Pops, Parent
<1>2. Hears(Parent, Top.task, Top.res, g) /\ log' = Noted("leave", Top.res) /\ Parent.part \in Sequences
  BY ParentFacts DEF Pops
<1>3. \A w, x : (x \in Events(w))' <=>
          x \in Events(w) \/ (w = "leave" /\ x = [what |-> "leave", path |-> Path, res |-> Top.res])
  BY <1>1, <1>2, EventsGrow
<1>4. ASSUME NEW e, (e \in Events("enter"))', HasAlways(e)'
      PROVE  Attempted(e)' \/ Underway(e)'
  <2>1. e \in Events("enter") /\ HasAlways(e)
    BY <1>3, <1>4, HasAlwaysStays
  <2>2. e.path \in Seq(Places) \ {<<>>} /\ Len(e.path) \in Nat \ {0}
    BY <2>1, EventType
  <2>3. PICK m : m = Len(e.path)
    OBVIOUS
  <2>4. CASE Attempted(e)
    BY <1>3, <2>4, AttemptedStays
  <2>5. CASE Underway(e)
    <3>1. /\ Along(e.path, m) /\ m \in 1 .. n
          /\ \/ stack[m].part \in {"block", "rescue"}
             \/ stack[m].part = "always" /\ (stack[m].pos = 0 \/ n > m)
      BY <1>0, <2>3, <2>5 DEF Underway, Along
    <3>2. m # n
      BY <1>1, <3>1
    <3>3. m \in 1 .. n - 1 /\ stack'[m].task = stack[m].task
      BY <1>1, <1>2, <3>1, <3>2 DEF Hears
    <3>4. Along(e.path, m)'
      <4>1. \A i \in 1 .. m - 1 : i \in 1 .. n - 2
        BY <1>1, <3>3
      <4> QED
        BY <1>1, <2>2, <2>3, <3>1, <3>3, <4>1, AlongStays
    <3>5. CASE m # n - 1
      <4>1. m \in 1 .. n - 2 /\ n - 1 > m
        BY <1>1, <3>3, <3>5
      <4>2. stack'[m] = stack[m]
        BY <1>1, <4>1
      <4> QED
        BY <1>1, <2>3, <3>1, <3>4, <4>1, <4>2 DEF Underway
    <3>6. CASE m = n - 1 /\ Parent.part \in {"block", "rescue"}
      <4>1. g.part \in Parts
        BY <1>2 DEF Hears, Frames
      <4>2. g.part \in {"block", "rescue"} \/ (g.part = "always" /\ g.pos = 0)
        BY <1>2, <3>6, <4>1 DEF Hears, Parts, Sequences
      <4> QED
        BY <1>1, <2>3, <3>4, <3>6, <4>2 DEF Underway
    <3>7. CASE m = n - 1 /\ Parent.part = "always"
      <4>1. PICK l : l = [what |-> "leave", path |-> Path, res |-> Top.res]
        OBVIOUS
      <4>2. (l \in Events("leave"))'
        BY <1>3, <4>1
      <4>3. /\ l.path = Path /\ Path \in Seq(Places) \ {<<>>} /\ Len(Path) = n
            /\ \A j \in 1 .. n : Path[j] = Place(stack[j]) /\ Path[j].name = stack[j].task.name
                                 /\ Path[j].part = stack[j].part
        BY <1>0, <1>1, <4>1, PathAlong
      <4>4. l.path[m].part = "always"
        BY <1>1, <3>3, <3>7, <4>3
      <4>5. Shares(l.path, e.path, m)
        <5>1. \A j \in 1 .. m - 1 : e.path[j] = Place(stack[j])
          BY <3>1 DEF Along
        <5>2. e.path[m].name = stack[m].task.name
          BY <3>1 DEF Along
        <5>3. m \in 1 .. n /\ \A j \in 1 .. m - 1 : j \in 1 .. n
          BY <1>1, <3>3
        <5> QED
          BY <4>3, <5>1, <5>2, <5>3 DEF Shares
      <4>6. Len(l.path) > m
        BY <1>1, <3>3, <4>3
      <4>7. Under(l, e.path)
        <5>1. l.path \in Seq(Places)
          BY <4>3
        <5> QED
          BY <2>2, <2>3, <4>5, <4>6, <5>1, UnderIs
      <4> QED
        BY <2>3, <4>2, <4>4, <4>7 DEF Attempted, Under
    <3> QED
      BY <1>1, <3>1, <3>5, <3>6, <3>7
  <2> QED
    BY <2>1, <2>4, <2>5 DEF AlwaysInv
<1> QED
  BY <1>4 DEF AlwaysInv

LEMMA ClosesAlways ==
  ASSUME TypeInv, TypeInv', AlwaysInv, opts' = opts, Closes
  PROVE  AlwaysInv'
<1>1. /\ stack # <<>> /\ Len(stack) = 1 /\ Top.part = "end" /\ log' = Noted("leave", Top.res)
      /\ Top.res \in Results /\ Top = stack[1]
  BY TopFacts DEF Closes
<1>2. \A w, x : (x \in Events(w))' <=>
          x \in Events(w) \/ (w = "leave" /\ x = [what |-> "leave", path |-> Path, res |-> Top.res])
  BY <1>1, EventsGrow
<1>3. ASSUME NEW e, (e \in Events("enter"))', HasAlways(e)'
      PROVE  Attempted(e)'
  <2>1. e \in Events("enter") /\ HasAlways(e)
    BY <1>2, <1>3, HasAlwaysStays
  <2>2. ~Underway(e)
    <3>1. ASSUME Along(e.path, Len(e.path)) PROVE Len(e.path) = 1
      BY <1>1, <3>1 DEF Along
    <3> QED
      BY <1>1, <3>1 DEF Underway
  <2>3. Attempted(e)
    BY <2>1, <2>2 DEF AlwaysInv
  <2> QED
    BY <1>2, <2>3, AttemptedStays
<1> QED
  BY <1>3 DEF AlwaysInv

LEMMA AlwaysStep ==
  ASSUME TypeInv, AlwaysInv, [Next]_state
  PROVE  AlwaysInv'
<1>1. TypeInv' /\ opts' = opts
  BY TypeStep, OptsStay
<1>2. ASSUME UNCHANGED state PROVE AlwaysInv'
  <2>1. stack' = stack /\ log' = log
    BY <1>2 DEF state
  <2>2. ASSUME NEW e, (e \in Events("enter"))', HasAlways(e)' PROVE Attempted(e)' \/ Underway(e)'
    <3>1. e \in Events("enter") /\ HasAlways(e)
      BY <1>1, <2>1, <2>2, EventsStay, HasAlwaysStays
    <3>2. Attempted(e) => Attempted(e)'
      BY <2>1, EventsStay, AttemptedStays
    <3>3. Underway(e) => Underway(e)'
      BY <2>1 DEF Underway, Along
    <3> QED
      BY <3>1, <3>2, <3>3 DEF AlwaysInv
  <2> QED
    BY <2>2 DEF AlwaysInv
<1> QED
  BY <1>1, <1>2, EveryStep, TurnAlways, DeepensAlways, PopsAlways, ClosesAlways

LEMMA InitAlways == Init => AlwaysInv
<1> SUFFICES ASSUME Init PROVE AlwaysInv
  OBVIOUS
<1>1. TypeInv /\ log = <<>> /\ Len(log) = 0
  BY InitTyped
<1>2. \A e : e \notin Events("enter")
  <2> SUFFICES ASSUME NEW e \in Events("enter") PROVE FALSE
    OBVIOUS
  <2>1. PICK i \in 1 .. Len(log) : e = log[i]
    BY <1>1, EventIs
  <2> QED
    BY <1>1, <2>1
<1> QED
  BY <1>2 DEF AlwaysInv

(* runBlock runs always whatever happened before: after a failure, after a *)
(* failing rescue, when the host was lost, in a chart that is given up.    *)
(* When the task has ended, every block that began and has a selected task *)
(* in always has run one.                                                  *)
THEOREM AlwaysRuns == Spec => []AlwaysAttempted
<1>1. TypeInv /\ AlwaysInv => AlwaysAttempted
  <2> SUFFICES ASSUME TypeInv, AlwaysInv, Done, NEW e \in Events("enter"), HasAlways(e)
               PROVE  Attempted(e)
    BY DEF AlwaysAttempted, HasAlways, Attempted
  <2>1. 1 .. Len(stack) = {}
    BY DEF Done
  <2> QED
    BY <2>1 DEF AlwaysInv, Underway, Along
<1> QED
  BY <1>1, InitTyped, InitAlways, TypeStep, AlwaysStep, PTL DEF Spec
-----------------------------------------------------------------------------
(* Failures.  A host that was lost is known to be in a frame, or in the    *)
(* verdict.                                                                *)
LostNow ==
  \/ \E k \in 1 .. Len(stack) : stack[k].res.lost
  \/ Done /\ Last(log).res.lost

LostInv == \A w \in {"enter", "item", "leave"} : \A e \in Events(w) : e.res.lost => LostNow

(* A task of the rescue that was to make good what failed below p at i has *)
(* failed itself.                                                          *)
Denies(l, p, i) ==
  /\ Len(l.path) = i + 1 /\ Shares(l.path, p, i) /\ l.path[i].part = "rescue"
  /\ ~Clean(l.res) /\ ~Of(l).ignore

Rescued(p, i) ==
  /\ i < Len(p) /\ p[i].part = "block" /\ Named(p[i].name).rescue # <<>>
  /\ \A l \in Events("leave") : ~Denies(l, p, i)

(* What failed at p has been made good by one of the first n tasks of p.   *)
Excused(p, n) ==
  \E i \in 1 .. n :
    \/ i > 1 /\ Named(p[i].name).ignore
    \/ Rescued(p, i)
    \/ Named(p[i].name).failed_when = "no"

(* One of the first n tasks of p is going to fail, or the verdict says so. *)
Carried(p, n) ==
  \/ \E k \in 1 .. n : Along(p, k) /\ stack[k].res.failed
  \/ Done /\ Last(log).res.failed

Known(p, n) == Excused(p, n) \/ Carried(p, n)

(* Unless the host was lost, which the verdict says: every failure is made *)
(* good or is in a frame of a task around it.  The failure of a task that  *)
(* has ended is one of the tasks around it, unless it is ignored.          *)
FailInv ==
  LostNow \/
  /\ \A e \in Events("item") : e.res.failed => Known(e.path, Len(e.path))
  /\ \A e \in Events("leave") :
       e.res.failed /\ (Len(e.path) = 1 \/ ~Of(e).ignore) => Known(e.path, Len(e.path) - 1)

LEMMA RecoveredIs ==
  ASSUME TypeInv, NEW e, e.path \in Seq(Places) \ {<<>>}
  PROVE  Excused(e.path, Len(e.path)) => Recovered(e)
<1> DEFINE p == e.path
<1>1. p \in Seq(Places) /\ Len(p) \in Nat /\ 1 .. Len(p) = 1 .. Len(e.path)
  OBVIOUS
<1>2. ASSUME NEW i \in 1 .. Len(p), NEW l \in Events("leave"),
             Under(l, SubSeq(p, 1, i)) /\ Len(l.path) = i + 1 /\ l.path[i].part = "rescue",
             ~Denies(l, p, i)
      PROVE  Clean(l.res) \/ Of(l).ignore
  <2>1. l.path \in Seq(Places)
    BY EventType
  <2>2. Shares(l.path, p, i)
    BY <1>1, <1>2, <2>1, UnderShares
  <2> QED
    BY <1>2, <2>2 DEF Denies
<1>3. ASSUME NEW i \in 1 .. Len(p), Rescued(p, i)
      PROVE  /\ i < Len(p) /\ p[i].part = "block" /\ Named(p[i].name).rescue # <<>>
             /\ \A l \in Events("leave") :
                  Under(l, SubSeq(p, 1, i)) /\ Len(l.path) = i + 1 /\ l.path[i].part = "rescue"
                    => Clean(l.res) \/ Of(l).ignore
  BY <1>2, <1>3 DEF Rescued
<1> SUFFICES ASSUME Excused(p, Len(p)) PROVE Recovered(e)
  OBVIOUS
<1>4. PICK i \in 1 .. Len(p) : \/ i > 1 /\ Named(p[i].name).ignore
                               \/ Rescued(p, i)
                               \/ Named(p[i].name).failed_when = "no"
  BY DEF Excused
<1>5. Rescued(p, i) =>
        /\ i < Len(p) /\ p[i].part = "block" /\ Named(p[i].name).rescue # <<>>
        /\ \A l \in Events("leave") :
             Under(l, SubSeq(p, 1, i)) /\ Len(l.path) = i + 1 /\ l.path[i].part = "rescue"
               => Clean(l.res) \/ Of(l).ignore
  BY <1>3
<1> QED
  BY <1>4, <1>5 DEF Recovered

LEMMA KnownIsSafe ==
  ASSUME TypeInv, LostInv, FailInv
  PROVE  NoFailureSwallowed
<1> SUFFICES ASSUME Done, Clean(Last(log).res), NEW e \in Events("item") \cup Events("leave")
             PROVE  ~e.res.lost /\ (e.res.failed => Recovered(e))
  BY DEF NoFailureSwallowed
<1>1. ~LostNow /\ \A p, n : ~Carried(p, n)
  <2>1. \A k : k \notin 1 .. Len(stack)
    BY DEF Done
  <2> QED
    BY <2>1 DEF LostNow, Carried, Clean, Along
<1>2. ~e.res.lost
  BY <1>1 DEF LostInv
<1>3. e.path \in Seq(Places) \ {<<>>} /\ Len(e.path) \in Nat \ {0}
  BY EventType
<1>4. ASSUME e.res.failed PROVE Excused(e.path, Len(e.path))
  <2>1. CASE e \in Events("item")
    BY <1>1, <1>4, <2>1 DEF FailInv, Known
  <2>2. CASE e \in Events("leave") /\ (Len(e.path) = 1 \/ ~Of(e).ignore)
    <3>1. Excused(e.path, Len(e.path) - 1)
      BY <1>1, <1>4, <2>2 DEF FailInv, Known
    <3>2. \A i \in 1 .. Len(e.path) - 1 : i \in 1 .. Len(e.path)
      BY <1>3
    <3> QED
      BY <3>1, <3>2 DEF Excused
  <2>3. CASE Len(e.path) # 1 /\ Of(e).ignore
    <3>1. Len(e.path) \in 1 .. Len(e.path) /\ Len(e.path) > 1 /\ Last(e.path) = e.path[Len(e.path)]
      <4>1. \A n \in Nat \ {0} : n # 1 => n \in 1 .. n /\ n > 1
        OBVIOUS
      <4>2. Last(e.path) = e.path[Len(e.path)]
        BY DEF Last
      <4> QED
        BY <1>3, <2>3, <4>1, <4>2
    <3> QED
      BY <2>3, <3>1 DEF Excused, Of
  <2> QED
    BY <2>1, <2>2, <2>3
<1> QED
  BY <1>2, <1>3, <1>4, RecoveredIs
(* A lost host stays known.                                                *)
LEMMA LostStays ==
  ASSUME TypeInv, TypeInv', Next, LostNow
  PROVE  LostNow'
<1>0. PICK n : n = Len(stack)
  OBVIOUS
<1>1. stack \in Seq(Frames) /\ stack # <<>>
  BY EveryStep DEF TypeInv, Turn, Deepens, Closes, Pops
<1>2. PICK k \in 1 .. n : stack[k].res.lost
  BY <1>0, <1>1 DEF LostNow, Done
<1>3. ASSUME NEW f, Turn(f) PROVE LostNow'
  <2>1. /\ n \in Nat \ {0} /\ Len(stack') = n /\ stack'[n] = f /\ Top = stack[n]
        /\ \A i \in 1 .. n - 1 : stack'[i] = stack[i]
    BY <1>0, <1>1, <1>3, TurnFrames
  <2>2. Top.res.lost => f.res.lost
    BY <1>3 DEF Turn, Answers
  <2>3. k = n \/ k \in 1 .. n - 1
    BY <2>1
  <2>4. stack'[k].res.lost
    BY <1>2, <2>1, <2>2, <2>3
  <2> QED
    BY <2>1, <2>4 DEF LostNow
<1>4. ASSUME NEW f, NEW g, Deepens(f, g) PROVE LostNow'
  <2>1. /\ n \in Nat \ {0} /\ Len(stack') = n + 1 /\ stack'[n] = f /\ Top = stack[n]
        /\ \A i \in 1 .. n - 1 : stack'[i] = stack[i]
    BY <1>0, <1>1, <1>4, DeepensFrames
  <2>2. Top.res = f.res
    BY <1>4 DEF Deepens
  <2>3. k \in 1 .. n + 1 /\ (k = n \/ k \in 1 .. n - 1)
    BY <2>1
  <2>4. stack'[k].res.lost
    BY <1>2, <2>1, <2>2, <2>3
  <2> QED
    BY <2>1, <2>3, <2>4 DEF LostNow
<1>5. ASSUME NEW g, Pops(g) PROVE LostNow'
  <2>1. /\ n \in Nat /\ n >= 2 /\ Len(stack') = n - 1 /\ stack'[n - 1] = g /\ Parent = stack[n - 1]
        /\ Top = stack[n]
        /\ \A i \in 1 .. n - 2 : stack'[i] = stack[i]
    BY <1>0, <1>5, PopsTyped, ParentFacts, TopFacts DEF Pops, Parent
  <2>2. Parent.res.lost \/ Top.res.lost => g.res.lost
    BY <1>5 DEF Pops, Hears
  <2>3. CASE k \in 1 .. n - 2
    <3>1. k \in 1 .. n - 1 /\ stack'[k].res.lost
      BY <1>2, <2>1, <2>3
    <3> QED
      BY <2>1, <3>1 DEF LostNow
  <2>4. CASE k \in n - 1 .. n
    <3>1. k = n - 1 \/ k = n
      BY <2>1, <2>4
    <3>2. n - 1 \in 1 .. n - 1 /\ stack'[n - 1].res.lost
      BY <1>2, <2>1, <2>2, <3>1
    <3> QED
      BY <2>1, <3>2 DEF LostNow
  <2> QED
    BY <2>1, <2>3, <2>4
<1>6. ASSUME Closes PROVE LostNow'
  <2>1. n = 1 /\ Top = stack[1] /\ Top.res \in Results /\ stack' = <<>> /\ log' = Noted("leave", Top.res)
    BY <1>0, <1>1, <1>6, TopFacts DEF Closes
  <2>2. Top.res.lost
    BY <1>2, <2>1
  <2>3. Last(log') = [what |-> "leave", path |-> Path, res |-> Top.res]
    BY <1>1, <2>1, NotedType DEF Last
  <2> QED
    BY <2>1, <2>2, <2>3 DEF LostNow, Done
<1> QED
  BY <1>3, <1>4, <1>5, <1>6, EveryStep

(* What is recorded by a step, and the events there were.                  *)
LEMMA StepEvents ==
  ASSUME TypeInv, TypeInv'
  PROVE  /\ \A f : Turn(f) => Events("leave")' = Events("leave")
         /\ \A f, g : Deepens(f, g) => \A w : Events(w)' = Events(w)
         /\ Closes \/ (\E g : Pops(g)) =>
              \A w, e : (e \in Events(w))' <=>
                e \in Events(w) \/ (w = "leave" /\ e = [what |-> "leave", path |-> Path, res |-> Top.res])
<1>1. ASSUME NEW f, Turn(f) PROVE Events("leave")' = Events("leave")
  <2>1. CASE log' = log
    BY <2>1, EventsStay
  <2>2. ASSUME NEW r \in Results, NEW what \in {"enter", "item"}, log' = Noted(what, r)
        PROVE  Events("leave")' = Events("leave")
    <3>1. stack # <<>>
      BY <1>1 DEF Turn
    <3>2. \A e : (e \in Events("leave"))' <=> e \in Events("leave")
      BY <2>2, <3>1, EventsGrow
    <3> QED
      BY <3>2
  <2> QED
    BY <1>1, <2>1, <2>2, ResultTypes DEF Turn, Answers
<1>2. ASSUME NEW f, NEW g, Deepens(f, g), NEW w PROVE Events(w)' = Events(w)
  BY <1>2, EventsStay DEF Deepens
<1>3. ASSUME Closes \/ (\E g : Pops(g)), NEW w, NEW e
      PROVE  (e \in Events(w))' <=>
               e \in Events(w) \/ (w = "leave" /\ e = [what |-> "leave", path |-> Path, res |-> Top.res])
  <2>1. stack # <<>> /\ log' = Noted("leave", Top.res)
    BY <1>3 DEF Closes, Pops
  <2>2. Top.res \in Results
    BY <2>1, TopFacts
  <2> QED
    BY <2>1, <2>2, EventsGrow
<1> QED
  BY <1>1, <1>2, <1>3

LEMMA LostStep ==
  ASSUME TypeInv, LostInv, [Next]_state
  PROVE  LostInv'
<1>1. TypeInv'
  BY TypeStep
<1>2. CASE UNCHANGED state
  BY <1>2 DEF state, LostInv, LostNow, Done, Events
<1>3. CASE Next
  <2>1. LostNow => LostNow'
    BY <1>1, <1>3, LostStays
  <2>2. ASSUME NEW w \in {"enter", "item", "leave"}, NEW e, (e \in Events(w))', e.res.lost
        PROVE  LostNow'
    <3>1. CASE e \in Events(w)
      BY <2>1, <2>2, <3>1 DEF LostInv
    <3>2. ASSUME e \notin Events(w), NEW f, Turn(f) PROVE LostNow'
      <4>1. /\ stack # <<>> /\ ~(log' = log)
        BY <2>2, <3>2, EventsStay DEF Turn
      <4>2. ~(log' = Noted("enter", Ok))
        BY <1>1, <2>2, <3>2, <4>1, EventsGrow, ResultTypes
      <4>3. PICK r \in Results : log' = Noted("item", r) /\ (r.lost => f.res.lost)
        BY <3>2, <4>1, <4>2 DEF Turn, Answers
      <4>4. e = [what |-> "item", path |-> Path, res |-> r]
        BY <1>1, <2>2, <3>2, <4>1, <4>3, EventsGrow
      <4>5. f.res.lost
        BY <2>2, <4>3, <4>4
      <4>6. Len(stack') \in 1 .. Len(stack') /\ stack'[Len(stack')] = f
        BY <3>2, TurnFrames DEF TypeInv
      <4> QED
        BY <4>5, <4>6 DEF LostNow
    <3>3. ASSUME NEW f, NEW g, Deepens(f, g) PROVE e \in Events(w)
      BY <1>1, <2>2, <3>3, StepEvents
    <3>4. ASSUME e \notin Events(w), Closes \/ \E g : Pops(g) PROVE LostNow'
      <4>1. e = [what |-> "leave", path |-> Path, res |-> Top.res]
        BY <1>1, <2>2, <3>4, StepEvents
      <4>2. Top.res.lost
        BY <2>2, <4>1
      <4>3. Len(stack) \in 1 .. Len(stack) /\ Top = stack[Len(stack)]
        BY <3>4, TopFacts DEF Closes, Pops
      <4>4. LostNow
        BY <4>2, <4>3 DEF LostNow
      <4> QED
        BY <2>1, <4>4
    <3> QED
      BY <1>3, <3>1, <3>2, <3>3, <3>4, EveryStep
  <2> QED
    BY <2>2 DEF LostInv
<1> QED
  BY <1>2, <1>3

(* Only the tasks that have ended can take back an excuse.                 *)
LEMMA ExcusesStay ==
  ASSUME Events("leave")' = Events("leave"), NEW p, NEW n
  PROVE  Excused(p, n)' <=> Excused(p, n)
<1>1. \A i, l : Denies(l, p, i)' <=> Denies(l, p, i)
  BY DEF Denies, Shares, Clean, Of, Named
<1>2. \A i : Rescued(p, i)' <=> Rescued(p, i)
  BY <1>1 DEF Rescued, Named
<1> QED
  BY <1>2 DEF Excused, Named

LEMMA TurnFails ==
  ASSUME TypeInv, TypeInv', FailInv, ~LostNow, ~LostNow', NEW f, Turn(f)
  PROVE  FailInv'
<1>0. PICK n : n = Len(stack)
  OBVIOUS
<1>1. /\ n \in Nat \ {0} /\ Len(stack') = n /\ stack'[n] = f /\ Top = stack[n]
      /\ \A i \in 1 .. n - 1 : stack'[i] = stack[i]
  BY <1>0, TurnFrames DEF TypeInv
<1>2. f.task = Top.task /\ Answers(f) /\ stack # <<>> /\ Top \in Frames
  BY TopFacts DEF Turn
<1>3. ~f.res.lost
  <2>1. n \in 1 .. n
    BY <1>1
  <2> QED
    BY <1>1, <2>1 DEF LostNow
<1>4. ASSUME NEW p, NEW m \in Nat, Known(p, m)
      PROVE  Known(p, m)'
  <2>1. Excused(p, m) => Excused(p, m)'
    BY ExcusesStay, StepEvents
  <2>2. ASSUME NEW k \in 1 .. m, Along(p, k), stack[k].res.failed
        PROVE  Known(p, m)'
    <3>1. k \in 1 .. n /\ k \in Nat \ {0} /\ \A i \in 1 .. k - 1 : i \in 1 .. n - 1
      BY <1>0, <1>1, <2>2 DEF Along
    <3>2. stack'[k].task = stack[k].task
      BY <1>1, <1>2, <3>1
    <3>3. Along(p, k)'
      BY <1>1, <2>2, <3>1, <3>2, AlongStays
    <3>4. CASE stack'[k].res.failed
      BY <3>3, <3>4 DEF Carried, Known
    <3>5. CASE ~stack'[k].res.failed
      <4>1. k = n
        BY <1>1, <2>2, <3>1, <3>5
      <4>2. Top.task.failed_when = "no"
        BY <1>1, <1>2, <1>3, <2>2, <3>5, <4>1 DEF Answers
      <4>3. Named(p[k].name) = Top.task
        <5>1. p[k].name = Top.task.name
          BY <1>1, <2>2, <4>1 DEF Along
        <5> QED
          BY <1>2, <5>1, NamedTask DEF Frames
      <4>4. Excused(p, m)
        BY <2>2, <4>2, <4>3 DEF Excused
      <4> QED
        BY <2>1, <4>4 DEF Known
    <3> QED
      BY <3>4, <3>5
  <2> QED
    BY <1>2, <1>4, <2>1, <2>2 DEF Known, Carried, Done
<1>5. ASSUME NEW e, (e \in Events("item"))', e.res.failed
      PROVE  Known(e.path, Len(e.path))'
  <2>1. CASE e \in Events("item")
    <3>1. Len(e.path) \in Nat
      BY <2>1, EventType
    <3> QED
      BY <1>4, <1>5, <2>1, <3>1 DEF FailInv
  <2>2. CASE e \notin Events("item")
    <3>1. ~(log' = log)
      BY <1>5, <2>2, EventsStay
    <3>2. ~(log' = Noted("enter", Ok))
      BY <1>2, <1>5, <2>2, EventsGrow, ResultTypes
    <3>3. PICK r \in Results : log' = Noted("item", r) /\ (r.failed => f.res.failed \/ f.res.lost)
      BY <1>2, <3>1, <3>2 DEF Answers
    <3>4. e = [what |-> "item", path |-> Path, res |-> r]
      BY <1>2, <1>5, <2>2, <3>3, EventsGrow
    <3>5. f.res.failed
      BY <1>3, <1>5, <3>3, <3>4
    <3>6. e.path = Path /\ Len(e.path) = n /\ Along(e.path, n)
      BY <1>0, <1>2, <3>4, PathAlong
    <3>7. Along(e.path, n)'
      BY <1>1, <1>2, <3>6, AlongStays
    <3>8. n \in 1 .. n
      BY <1>1
    <3> QED
      BY <1>1, <3>5, <3>6, <3>7, <3>8 DEF Carried, Known
  <2> QED
    BY <2>1, <2>2
<1>6. ASSUME NEW e, (e \in Events("leave"))', e.res.failed, Len(e.path) = 1 \/ ~Of(e).ignore
      PROVE  Known(e.path, Len(e.path) - 1)'
  <2>1. e \in Events("leave")
    BY <1>6, StepEvents
  <2>2. Len(e.path) - 1 \in Nat
    BY <2>1, EventType
  <2> QED
    BY <1>4, <1>6, <2>1, <2>2 DEF FailInv
<1> QED
  BY <1>5, <1>6 DEF FailInv, Of, Named

LEMMA DeepensFails ==
  ASSUME TypeInv, TypeInv', FailInv, ~LostNow, NEW f, NEW g, Deepens(f, g)
  PROVE  FailInv'
<1>0. PICK n : n = Len(stack)
  OBVIOUS
<1>1. /\ n \in Nat \ {0} /\ Len(stack') = n + 1 /\ stack'[n] = f /\ Top = stack[n]
      /\ \A i \in 1 .. n - 1 : stack'[i] = stack[i]
  BY <1>0, DeepensFrames DEF TypeInv
<1>2. f.task = Top.task /\ f.res = Top.res /\ stack # <<>>
  BY DEF Deepens
<1>3. \A w : Events(w)' = Events(w)
  BY StepEvents
<1>4. ASSUME NEW p, NEW m \in Nat, Known(p, m)
      PROVE  Known(p, m)'
  <2>1. Excused(p, m) => Excused(p, m)'
    BY <1>3, ExcusesStay
  <2>2. ASSUME NEW k \in 1 .. m, Along(p, k), stack[k].res.failed
        PROVE  Known(p, m)'
    <3>1. k \in 1 .. n /\ k \in Nat \ {0} /\ k <= n + 1 /\ \A i \in 1 .. k - 1 : i \in 1 .. n - 1
      BY <1>0, <1>1, <2>2 DEF Along
    <3>2. stack'[k].task = stack[k].task /\ stack'[k].res = stack[k].res
      BY <1>1, <1>2, <3>1
    <3>3. Along(p, k)'
      BY <1>1, <2>2, <3>1, <3>2, AlongStays
    <3> QED
      BY <2>2, <3>2, <3>3 DEF Carried, Known
  <2> QED
    BY <1>2, <1>4, <2>1, <2>2 DEF Known, Carried, Done
<1>5. ASSUME NEW e, (e \in Events("item"))', e.res.failed
      PROVE  Known(e.path, Len(e.path))'
  <2>1. e \in Events("item")
    BY <1>3, <1>5
  <2>2. Len(e.path) \in Nat
    BY <2>1, EventType
  <2> QED
    BY <1>4, <1>5, <2>1, <2>2 DEF FailInv
<1>6. ASSUME NEW e, (e \in Events("leave"))', e.res.failed, Len(e.path) = 1 \/ ~Of(e).ignore
      PROVE  Known(e.path, Len(e.path) - 1)'
  <2>1. e \in Events("leave")
    BY <1>3, <1>6
  <2>2. Len(e.path) - 1 \in Nat
    BY <2>1, EventType
  <2> QED
    BY <1>4, <1>6, <2>1, <2>2 DEF FailInv
<1> QED
  BY <1>5, <1>6 DEF FailInv, Of, Named

LEMMA ClosesFails ==
  ASSUME TypeInv, TypeInv', FailInv, ~LostNow, Closes
  PROVE  FailInv'
<1>1. /\ stack # <<>> /\ Len(stack) = 1 /\ stack' = <<>> /\ log' = Noted("leave", Top.res)
      /\ Top = stack[1] /\ Top.res \in Results
  BY TopFacts DEF Closes
<1>2. PICK x : x = [what |-> "leave", path |-> Path, res |-> Top.res]
  OBVIOUS
<1>3. \A w, e : (e \in Events(w))' <=> e \in Events(w) \/ (w = "leave" /\ e = x)
  BY <1>2, StepEvents
<1>4. Len(x.path) = 1
  BY <1>1, <1>2, PathAlong
<1>5. Last(log') = x
  <2>1. Last(log') = [what |-> "leave", path |-> Path, res |-> Top.res]
    BY <1>1, NotedType DEF Last
  <2> QED
    BY <1>2, <2>1
<1>6. ASSUME Top.res.failed, NEW p, NEW m PROVE Carried(p, m)'
  BY <1>1, <1>2, <1>5, <1>6 DEF Carried, Done
<1>7. ASSUME NEW p, NEW m \in Nat, Known(p, m)
      PROVE  Known(p, m)'
  <2>1. ASSUME NEW i \in 1 .. m, Rescued(p, i) PROVE Rescued(p, i)'
    <3>1. i + 1 # 1
      BY <2>1
    <3>2. \A l : Denies(l, p, i)' <=> Denies(l, p, i)
      BY DEF Denies, Shares, Clean, Of, Named
    <3>3. ~Denies(x, p, i)
      BY <1>4, <3>1 DEF Denies
    <3> QED
      BY <1>3, <2>1, <3>2, <3>3 DEF Rescued, Named
  <2>2. Excused(p, m) => Excused(p, m)'
    BY <2>1 DEF Excused, Named
  <2>3. ASSUME NEW k \in 1 .. m, Along(p, k), stack[k].res.failed
        PROVE  Top.res.failed
    <3>1. k = 1
      BY <1>1, <2>3 DEF Along
    <3> QED
      BY <1>1, <2>3, <3>1
  <2>4. Carried(p, m) => Top.res.failed
    BY <1>1, <2>3 DEF Carried, Done
  <2> QED
    BY <1>6, <1>7, <2>2, <2>4 DEF Known
<1>8. ASSUME NEW e, (e \in Events("item"))', e.res.failed
      PROVE  Known(e.path, Len(e.path))'
  <2>1. e \in Events("item")
    BY <1>3, <1>8
  <2>2. Len(e.path) \in Nat
    BY <2>1, EventType
  <2> QED
    BY <1>7, <1>8, <2>1, <2>2 DEF FailInv
<1>9. ASSUME NEW e, (e \in Events("leave"))', e.res.failed, Len(e.path) = 1 \/ ~Of(e).ignore
      PROVE  Known(e.path, Len(e.path) - 1)'
  <2>1. CASE e = x
    <3>1. Top.res.failed
      BY <1>2, <1>9, <2>1
    <3> QED
      BY <1>6, <3>1 DEF Known
  <2>2. CASE e \in Events("leave")
    <3>1. Len(e.path) - 1 \in Nat
      BY <2>2, EventType
    <3> QED
      BY <1>7, <1>9, <2>2, <3>1 DEF FailInv
  <2> QED
    BY <1>3, <1>9, <2>1, <2>2
<1> QED
  BY <1>8, <1>9 DEF FailInv, Of, Named

(* A task ends in a task.                                                  *)
LEMMA PopsFacts ==
  ASSUME TypeInv, NEW g, Pops(g)
  PROVE  /\ Len(stack) \in Nat /\ Len(stack) >= 2 /\ Len(stack) - 1 \in Nat \ {0}
         /\ Len(stack') = Len(stack) - 1
         /\ \A i \in 1 .. Len(stack) - 2 : stack'[i] = stack[i]
         /\ stack'[Len(stack) - 1] = g /\ Parent = stack[Len(stack) - 1] /\ Top = stack[Len(stack)]
         /\ g.task = Parent.task /\ Parent \in Frames /\ Top \in Frames
         /\ Parent.part \in Sequences /\ Top.res \in Results /\ stack # <<>>
         /\ Hears(Parent, Top.task, Top.res, g)
<1>1. stack # <<>> /\ Len(stack) # 1 /\ Hears(Parent, Top.task, Top.res, g)
  BY DEF Pops
<1>2. g.task = Parent.task
  BY <1>1 DEF Hears
<1>3. /\ Parent \in Frames /\ Parent.part \in Sequences /\ Top \in Frames /\ Top.res \in Results
      /\ Top = stack[Len(stack)]
  BY <1>1, ParentFacts, TopFacts
<1>4. Len(stack) \in Nat /\ Len(stack) >= 2 /\ Len(stack) - 1 \in Nat \ {0}
  BY <1>1, ParentFacts, TopFacts
<1>5. /\ Len(stack') = Len(stack) - 1 /\ stack'[Len(stack) - 1] = g
      /\ \A i \in 1 .. Len(stack) - 2 : stack'[i] = stack[i]
  BY PopsTyped
<1>6. Parent = stack[Len(stack) - 1]
  BY DEF Parent
<1> QED
  BY <1>1, <1>2, <1>3, <1>4, <1>5, <1>6

(* The frames below the one that ends keep their failures.                 *)
LEMMA PopsCarried ==
  ASSUME TypeInv, TypeInv', NEW g, Pops(g), NEW p, NEW m \in Nat, NEW k \in 1 .. m,
         Along(p, k), stack[k].res.failed, k <= Len(stack) - 1
  PROVE  Carried(p, m)'
<1>0. PICK n : n = Len(stack)
  OBVIOUS
<1>2. /\ n \in Nat /\ n >= 2 /\ n - 1 \in Nat \ {0} /\ Len(stack') = n - 1
      /\ \A i \in 1 .. n - 2 : stack'[i] = stack[i]
      /\ stack'[n - 1] = g /\ Parent = stack[n - 1] /\ g.task = Parent.task
      /\ Hears(Parent, Top.task, Top.res, g)
  BY <1>0, PopsFacts
<1>3. k \in Nat \ {0} /\ k <= n - 1 /\ (k = n - 1 \/ k \in 1 .. n - 2) /\ \A i \in 1 .. k - 1 : i \in 1 .. n - 2
  BY <1>0, <1>2
<1>4. Parent.res.failed => g.res.failed
  BY <1>2 DEF Hears
<1>5. stack'[k].task = stack[k].task /\ stack'[k].res.failed
  BY <1>2, <1>3, <1>4
<1>6. Along(p, k)'
  BY <1>2, <1>3, <1>5, AlongStays
<1> QED
  BY <1>5, <1>6 DEF Carried

(* A failed task of a rescue, or of the rest of its block or chart, is a   *)
(* failure of the task it is in.                                           *)
LEMMA ParentFails ==
  ASSUME TypeInv, TypeInv', NEW g, Pops(g), g.res.failed,
         NEW p, NEW m \in Nat, m >= Len(stack) - 1, Along(p, Len(stack) - 1)
  PROVE  Carried(p, m)'
<1>0. PICK n : n = Len(stack)
  OBVIOUS
<1>2. /\ n \in Nat /\ n >= 2 /\ n - 1 \in Nat \ {0} /\ Len(stack') = n - 1
      /\ \A i \in 1 .. n - 2 : stack'[i] = stack[i]
      /\ stack'[n - 1] = g /\ Parent = stack[n - 1] /\ g.task = Parent.task
  BY <1>0, PopsFacts
<1>3. n - 1 \in 1 .. m /\ \A i \in 1 .. (n - 1) - 1 : i \in 1 .. n - 2
  BY <1>0, <1>2
<1>4. Along(p, n - 1)'
  <2>1. n - 1 <= Len(stack')
    BY <1>2
  <2> QED
    BY <1>0, <1>2, <1>3, <2>1, AlongStays
<1> QED
  BY <1>2, <1>3, <1>4 DEF Carried

(* What fails in a task of p is known in the tasks of p around it, or made *)
(* good by one of them: by the rescue, unless that has failed already.     *)
LEMMA Rises ==
  ASSUME TypeInv, TypeInv', LostInv, FailInv, ~LostNow, ~LostNow', NEW g, Pops(g),
         NEW p, Along(p, Len(stack)), Top.res.failed,
         NEW m \in Nat, m >= Len(stack) - 1, m >= Len(stack) \/ ~Top.task.ignore
  PROVE  Known(p, m)'
<1>0. PICK n : n = Len(stack)
  OBVIOUS
<1>1. /\ n \in Nat /\ n >= 2 /\ n - 1 \in Nat \ {0} /\ Len(stack') = n - 1
      /\ stack'[n - 1] = g /\ Parent = stack[n - 1] /\ Top = stack[n]
      /\ g.task = Parent.task /\ Parent \in Frames /\ Top \in Frames /\ stack # <<>>
      /\ Hears(Parent, Top.task, Top.res, g) /\ Parent.part \in Sequences
  BY <1>0, PopsFacts
<1>2. PICK x : x = [what |-> "leave", path |-> Path, res |-> Top.res]
  OBVIOUS
<1>3. \A w, e : (e \in Events(w))' <=> e \in Events(w) \/ (w = "leave" /\ e = x)
  BY <1>2, StepEvents
<1>4. /\ Len(x.path) = n
      /\ \A j \in 1 .. n : x.path[j] = Place(stack[j]) /\ x.path[j].part = stack[j].part
  BY <1>0, <1>1, <1>2, PathAlong
<1>5. /\ n \in 1 .. Len(p) /\ p[n].name = Top.task.name
      /\ \A j \in 1 .. n - 1 : p[j] = Place(stack[j])
  BY <1>0, <1>1 DEF Along
<1>6. n - 1 \in 1 .. n - 1 /\ n - 1 \in 1 .. n /\ n - 1 < Len(p) /\ n - 1 \in 1 .. m /\ n - 1 \in 1 .. Len(p)
      /\ n - 1 \in 1 .. Len(stack) /\ \A j \in 1 .. (n - 1) - 1 : j \in 1 .. n - 1
  <2>1. Len(p) \in Nat \/ Len(p) \notin Nat
    OBVIOUS
  <2> QED
    BY <1>0, <1>1, <1>5
<1>7. p[n - 1] = Place(Parent) /\ Along(p, n - 1)
  BY <1>1, <1>5, <1>6 DEF Along, Place
<1>8. \A l, i : Denies(l, p, i)' <=> Denies(l, p, i)
  BY DEF Denies, Shares, Clean, Of, Named
<1>9. ~g.res.lost
  BY <1>1, <1>6 DEF LostNow
<1>10. CASE Top.task.ignore
  <2>1. n \in 1 .. m /\ n > 1
    BY <1>0, <1>1, <1>10
  <2>2. Named(p[n].name) = Top.task
    BY <1>1, <1>5, NamedTask DEF Frames
  <2> QED
    BY <1>10, <2>1, <2>2 DEF Known, Excused, Named
<1>11. CASE g.res.failed
  BY <1>0, <1>7, <1>11, ParentFails DEF Known
<1>12. CASE ~Top.task.ignore /\ ~g.res.failed
  <2>1. Parent.part = "block" /\ Parent.task.rescue # <<>>
    BY <1>1, <1>9, <1>12 DEF Hears
  <2>2. p[n - 1].part = "block" /\ Named(p[n - 1].name).rescue # <<>>
    <3>1. Parent.task \in Tasks /\ p[n - 1].name = Parent.task.name /\ p[n - 1].part = Parent.part
      BY <1>1, <1>7 DEF Frames, Place
    <3> QED
      BY <2>1, <3>1, NamedTask
  <2>3. ~Denies(x, p, n - 1)
    <3>1. x.path[n - 1].part = "block"
      BY <1>1, <1>4, <1>6, <2>1
    <3> QED
      BY <3>1 DEF Denies
  <2>4. CASE \A l \in Events("leave") : ~Denies(l, p, n - 1)
    <3>1. Rescued(p, n - 1)'
      BY <1>3, <1>6, <1>8, <2>2, <2>3, <2>4 DEF Rescued, Named
    <3> QED
      BY <1>6, <3>1 DEF Known, Excused
  <2>5. ASSUME NEW l \in Events("leave"), Denies(l, p, n - 1)
        PROVE  Known(p, m)'
    <3>1. /\ Len(l.path) = n /\ l.path[n - 1].part = "rescue" /\ ~Clean(l.res) /\ ~Of(l).ignore
          /\ \A j \in 1 .. (n - 1) - 1 : l.path[j] = p[j]
          /\ l.path[n - 1].name = p[n - 1].name
      BY <1>1, <2>5 DEF Denies, Shares
    <3>2. l.res.failed
      BY <3>1 DEF Clean, LostInv
    <3>3. Known(l.path, n - 1)
      BY <3>1, <3>2 DEF FailInv
    <3>4. \A i \in 1 .. n - 1 : i \in 1 .. m /\ i <= n - 1 /\ l.path[i].name = p[i].name
                                /\ \A j \in 1 .. i - 1 : l.path[j] = p[j]
      <4>1. ASSUME NEW i \in 1 .. n - 1
            PROVE  /\ i \in 1 .. m /\ i <= n - 1 /\ (i = n - 1 \/ i \in 1 .. (n - 1) - 1)
                   /\ \A j \in 1 .. i - 1 : j \in 1 .. (n - 1) - 1
        BY <1>0, <1>1
      <4> QED
        BY <3>1, <4>1
    <3>5. ASSUME NEW k \in 1 .. n - 1, Along(l.path, k), stack[k].res.failed
          PROVE  Known(p, m)'
      <4>1. k \in 1 .. Len(stack) /\ k \in 1 .. Len(p)
        BY <1>0, <1>1, <1>6
      <4>2. Along(p, k)
        BY <3>4, <3>5, <4>1 DEF Along
      <4>3. k \in 1 .. m /\ k <= Len(stack) - 1
        BY <1>0, <3>4
      <4> QED
        BY <3>5, <4>2, <4>3, PopsCarried DEF Known
    <3>6. ASSUME NEW i \in 1 .. n - 1, Rescued(l.path, i)
          PROVE  Rescued(p, i)'
      <4>1. l.path[i].part = "block"
        BY <3>6 DEF Rescued
      <4>2. i # n - 1 /\ i + 1 # n /\ i \in 1 .. (n - 1) - 1 /\ i < Len(p)
        <5>1. i # n - 1
          BY <3>1, <4>1
        <5> QED
          BY <1>1, <1>5, <5>1
      <4>3. l.path[i] = p[i] /\ \A j \in 1 .. i - 1 : l.path[j] = p[j]
        BY <3>1, <3>4, <4>2
      <4>4. \A d : Denies(d, p, i) <=> Denies(d, l.path, i)
        BY <4>3 DEF Denies, Shares
      <4>5. ~Denies(x, p, i)
        BY <1>4, <4>2 DEF Denies
      <4>6. p[i].part = "block" /\ Named(p[i].name).rescue # <<>>
        BY <3>6, <4>3 DEF Rescued
      <4>7. \A d : (d \in Events("leave"))' => ~Denies(d, p, i)
        BY <1>3, <3>6, <4>4, <4>5 DEF Rescued
      <4> QED
        BY <1>8, <4>2, <4>6, <4>7 DEF Rescued, Named
    <3>7. CASE Excused(l.path, n - 1)
      <4>1. PICK i \in 1 .. n - 1 : \/ i > 1 /\ Named(l.path[i].name).ignore
                                    \/ Rescued(l.path, i)
                                    \/ Named(l.path[i].name).failed_when = "no"
        BY <3>7 DEF Excused
      <4>2. \/ i > 1 /\ Named(p[i].name).ignore
            \/ Rescued(p, i)'
            \/ Named(p[i].name).failed_when = "no"
        BY <3>4, <3>6, <4>1
      <4> QED
        BY <3>4, <4>2 DEF Known, Excused, Named
    <3> QED
      BY <1>1, <3>3, <3>5, <3>7 DEF Known, Carried, Done
  <2> QED
    BY <2>4, <2>5
<1> QED
  BY <1>10, <1>11, <1>12

(* The task that ends may take back the excuse of what failed before: it   *)
(* was in the rescue, and fails the block.                                 *)
LEMMA PopsKnown ==
  ASSUME TypeInv, TypeInv', LostInv, FailInv, ~LostNow, ~LostNow', NEW g, Pops(g),
         NEW p, NEW m \in Nat, m <= Len(p), Len(p) \in Nat, Known(p, m)
  PROVE  Known(p, m)'
<1>0. PICK n : n = Len(stack)
  OBVIOUS
<1>1. /\ n \in Nat /\ n >= 2 /\ n - 1 \in Nat \ {0} /\ Parent = stack[n - 1] /\ Top = stack[n]
      /\ stack'[n - 1] = g /\ Len(stack') = n - 1 /\ stack # <<>>
      /\ Hears(Parent, Top.task, Top.res, g)
  BY <1>0, PopsFacts
<1>2. PICK x : x = [what |-> "leave", path |-> Path, res |-> Top.res]
  OBVIOUS
<1>3. \A w, e : (e \in Events(w))' <=> e \in Events(w) \/ (w = "leave" /\ e = x)
  BY <1>2, StepEvents
<1>4. \A l, i : Denies(l, p, i)' <=> Denies(l, p, i)
  BY DEF Denies, Shares, Clean, Of, Named
<1>5. ~g.res.lost /\ ~Top.res.lost
  <2>1. n - 1 \in 1 .. n - 1 /\ n \in 1 .. n
    BY <1>1
  <2> QED
    BY <1>0, <1>1, <2>1 DEF LostNow
<1>6. ASSUME NEW k \in 1 .. m, Along(p, k), stack[k].res.failed
      PROVE  Known(p, m)'
  <2>1. CASE k <= n - 1
    BY <1>0, <1>6, <2>1, PopsCarried DEF Known
  <2>2. CASE ~(k <= n - 1)
    <3>1. k = n /\ m >= n
      BY <1>0, <1>1, <1>6, <2>2 DEF Along
    <3>2. m >= n - 1
      BY <1>1, <3>1
    <3> QED
      BY <1>0, <1>1, <1>6, <3>1, <3>2, Rises
  <2> QED
    BY <2>1, <2>2
<1>7. ASSUME NEW i \in 1 .. m, Denies(x, p, i)
      PROVE  Known(p, m)'
  <2>1. Len(Path) = n /\ \A j \in 1 .. n : Path[j] = Place(stack[j]) /\ Path[j].name = stack[j].task.name
                                           /\ Path[j].part = stack[j].part
    BY <1>0, <1>1, PathAlong
  <2>2. i = n - 1 /\ n - 1 \in 1 .. m /\ n - 1 \in 1 .. n /\ n - 1 \in 1 .. Len(p)
        /\ \A j \in 1 .. (n - 1) - 1 : j \in 1 .. n
    <3>1. i + 1 = n
      BY <1>2, <1>7, <2>1 DEF Denies
    <3> QED
      BY <1>1, <3>1
  <2>3. x.path = Path /\ x.res = Top.res
    BY <1>2
  <2>4. Parent.part = "rescue"
    BY <1>1, <1>7, <2>1, <2>2, <2>3 DEF Denies
  <2>5. Top.res.failed
    BY <1>5, <1>7, <2>3 DEF Denies, Clean
  <2>6. ~Top.task.ignore
    <3>1. Last(Path) = Path[n]
      BY <2>1 DEF Last
    <3>2. Top.task \in Tasks
      BY <1>1, TopFacts DEF Frames
    <3>3. n \in 1 .. n
      BY <1>1
    <3>4. Of(x) = Top.task
      BY <1>1, <2>1, <2>3, <3>1, <3>2, <3>3, NamedTask DEF Of
    <3> QED
      BY <1>7, <3>4 DEF Denies
  <2>7. g.res.failed
    BY <1>1, <1>5, <2>4, <2>5, <2>6 DEF Hears
  <2>8. Along(p, n - 1)
    <3>1. Shares(Path, p, n - 1)
      BY <1>7, <2>2, <2>3 DEF Denies
    <3>2. /\ p[n - 1].name = stack[n - 1].task.name
          /\ \A j \in 1 .. (n - 1) - 1 : p[j] = Place(stack[j])
      BY <2>1, <2>2, <3>1 DEF Shares
    <3> QED
      BY <1>0, <2>2, <3>2 DEF Along
  <2>9. m >= n - 1
    BY <1>1, <2>2
  <2> QED
    BY <1>0, <2>7, <2>8, <2>9, ParentFails DEF Known
<1>8. ASSUME \A i \in 1 .. m : ~Denies(x, p, i), Excused(p, m)
      PROVE  Excused(p, m)'
  <2>1. \A i \in 1 .. m : Rescued(p, i) => Rescued(p, i)'
    BY <1>3, <1>4, <1>8 DEF Rescued, Named
  <2> QED
    BY <1>8, <2>1 DEF Excused, Named
<1> QED
  BY <1>1, <1>6, <1>7, <1>8 DEF Known, Carried, Done

LEMMA PopsFails ==
  ASSUME TypeInv, TypeInv', LostInv, FailInv, ~LostNow, ~LostNow', NEW g, Pops(g)
  PROVE  FailInv'
<1>0. PICK n : n = Len(stack)
  OBVIOUS
<1>1. n \in Nat /\ n >= 2 /\ Top = stack[n] /\ stack # <<>>
  BY <1>0, PopsFacts
<1>2. PICK x : x = [what |-> "leave", path |-> Path, res |-> Top.res]
  OBVIOUS
<1>3. \A w, e : (e \in Events(w))' <=> e \in Events(w) \/ (w = "leave" /\ e = x)
  BY <1>2, StepEvents
<1>4. ASSUME NEW e, (e \in Events("item"))', e.res.failed
      PROVE  Known(e.path, Len(e.path))'
  <2>1. e \in Events("item")
    BY <1>3, <1>4
  <2>2. Len(e.path) \in Nat /\ Len(e.path) <= Len(e.path)
    BY <2>1, EventType
  <2>3. Known(e.path, Len(e.path))
    BY <1>4, <2>1 DEF FailInv
  <2> QED
    BY <2>2, <2>3, PopsKnown
<1>5. ASSUME NEW e, (e \in Events("leave"))', e.res.failed, Len(e.path) = 1 \/ ~Of(e).ignore
      PROVE  Known(e.path, Len(e.path) - 1)'
  <2>1. CASE e \in Events("leave")
    <3>1. Len(e.path) \in Nat /\ Len(e.path) - 1 \in Nat /\ Len(e.path) - 1 <= Len(e.path)
      BY <2>1, EventType
    <3>2. Known(e.path, Len(e.path) - 1)
      BY <1>5, <2>1 DEF FailInv
    <3> QED
      BY <3>1, <3>2, PopsKnown
  <2>2. CASE e = x
    <3>1. e.path = Path /\ Len(e.path) = n /\ Along(e.path, n) /\ Top.res.failed
          /\ e.path \in Seq(Places) \ {<<>>}
      BY <1>0, <1>1, <1>2, <1>5, <2>2, PathAlong
    <3>2. Of(e) = Top.task
      BY <1>1, <3>1, AlongTask
    <3>3. ~Top.task.ignore
      BY <1>1, <1>5, <3>1, <3>2
    <3>4. n - 1 \in Nat /\ n - 1 >= n - 1
      BY <1>1
    <3> QED
      BY <1>0, <3>1, <3>3, <3>4, Rises
  <2> QED
    BY <1>3, <1>5, <2>1, <2>2
<1> QED
  BY <1>4, <1>5 DEF FailInv, Of, Named

LEMMA FailStep ==
  ASSUME TypeInv, LostInv, FailInv, [Next]_state
  PROVE  FailInv'
<1>1. TypeInv'
  BY TypeStep
<1>2. CASE UNCHANGED state
  <2>1. stack' = stack /\ log' = log
    BY <1>2 DEF state
  <2>2. /\ \A w : Events(w)' = Events(w)
        /\ \A p, n : Along(p, n)' <=> Along(p, n)
        /\ LostNow' <=> LostNow
        /\ Done' <=> Done
    BY <2>1 DEF Events, Along, LostNow, Done
  <2>3. \A p, n : Known(p, n)' <=> Known(p, n)
    BY <2>1, <2>2, ExcusesStay DEF Known, Carried
  <2> QED
    BY <2>2, <2>3 DEF FailInv, Of, Named
<1>3. CASE Next /\ LostNow'
  BY <1>3 DEF FailInv
<1>4. CASE Next /\ ~LostNow'
  <2>1. ~LostNow
    BY <1>1, <1>4, LostStays
  <2> QED
    BY <1>1, <1>4, <2>1, EveryStep, TurnFails, DeepensFails, ClosesFails, PopsFails
<1> QED
  BY <1>2, <1>3, <1>4

LEMMA InitFails == Init => LostInv /\ FailInv
<1> SUFFICES ASSUME Init PROVE LostInv /\ FailInv
  OBVIOUS
<1>1. TypeInv /\ log = <<>> /\ Len(log) = 0
  BY InitTyped
<1>2. \A w, e : e \notin Events(w)
  <2> SUFFICES ASSUME NEW w, NEW e \in Events(w) PROVE FALSE
    OBVIOUS
  <2>1. PICK i \in 1 .. Len(log) : e = log[i]
    BY <1>1, EventIs
  <2> QED
    BY <1>1, <2>1
<1> QED
  BY <1>2 DEF LostInv, FailInv

(* A failure of a call or of a task is made good by a rescue that went     *)
(* well, by ignore_errors or by failed_when, or fails the task that was    *)
(* run, and a lost host is in its verdict; what the tasks of a block see   *)
(* of its failure is the variable of that block (runBlock, runChartTask,   *)
(* expand.go).                                                             *)
THEOREM FailuresReach == Spec => []FailuresKnown
<1>1. TypeInv /\ LostInv /\ FailInv => NoFailureSwallowed
  BY KnownIsSafe
<1>2. NoFailureSwallowed /\ FailureInScope => FailuresKnown
  BY DEF FailuresKnown
<1> QED
  BY <1>1, <1>2, FailureScoped, InitTyped, InitFails, TypeStep, LostStep, FailStep, PTL DEF Spec
-----------------------------------------------------------------------------
(* Handlers.  What else a step does to the innermost frame: how far it     *)
(* comes, what it adds up of its calls, and whom it notifies.              *)
Calling == {"item", "attempt", "judge"}

Onward == {<<"block", "rescue">>, <<"block", "always">>, <<"rescue", "always">>}

Progress(f) ==
  /\ f.part # "start" /\ Top.part # "end"
  /\ Top.part \in Sequences =>
       \/ f.part = "end"
       \/ f.item = Top.item /\ <<Top.part, f.part>> \in Onward
       \/ Top.part = "chart" /\ f.part = "chart" /\ f.item > Top.item

Sums(f) ==
  \/ /\ log' = log \/ log' = Noted("enter", Ok)
     /\ f.part \in Calling =>
          \/ Top.part = "start" /\ ~f.res.changed
          \/ Top.part \in Calling /\ f.res = Top.res
  \/ /\ Top.part \in {"item", "attempt"}
     /\ \E r \in Results :
          /\ log' = Noted("item", r)
          /\ f.res.changed => Top.res.changed \/ r.changed
          /\ Top.res.changed \/ r.changed => f.res.changed \/ f.res.lost

Concludes(f) ==
  /\ f.part = "end" /\ f.task.kind # "block" /\ ~f.res.skipped /\ ~f.res.failed
  /\ notified' = Notify(f.task, f.res) /\ f.res.lost = Top.res.lost
  /\ f.task.kind = "module" =>
       Top.part = "judge" /\ f.res.changed = Judged(f.task.changed_when, Top.res.changed)
  /\ f.task.kind = "chart" => f.res.changed = Top.res.changed

Heeds(f) ==
  /\ Progress(f) /\ Sums(f)
  /\ f.task.kind # "module" => f.res.changed = Top.res.changed
  /\ ~Top.res.skipped /\ f.part # "end" => ~f.res.skipped
  /\ notified' = notified \/ Concludes(f)
  /\ f.part = "end" /\ f.task.kind # "block" /\ ~f.res.skipped /\ Clean(f.res) => Concludes(f)

Heeding == \E f \in Frames : stack' = Go(f) /\ Heeds(f)

LEMMA SkipHeeds ==
  ASSUME TypeInv, Skip
  PROVE  Heeding
<1> DEFINE f == Ends(Skipped)
<1>1. stack # <<>> /\ Top.part = "start" /\ stack' = Go(f) /\ log' = log /\ notified' = notified
  BY DEF Skip
<1>2. Top \in Frames /\ Top.res = Ok
  BY <1>1, TopFacts DEF Shape
<1>3. f \in Frames /\ f.task = Top.task /\ f.part = "end" /\ f.res = Skipped
  BY <1>2, ResultTypes DEF Ends, Frames, Parts
<1> HIDE DEF f
<1>4. Heeds(f)
  BY <1>1, <1>2, <1>3, ResultTypes DEF Heeds, Progress, Sums, Sequences, Calling
<1> QED
  BY <1>1, <1>3, <1>4 DEF Heeding

LEMMA RefusedHeeds ==
  ASSUME TypeInv, Refused
  PROVE  Heeding
<1> DEFINE f == Ends(Failed)
<1>1. stack # <<>> /\ Top.part = "start" /\ stack' = Go(f) /\ log' = log /\ notified' = notified
  BY DEF Refused
<1>2. Top \in Frames /\ Top.res = Ok
  BY <1>1, TopFacts DEF Shape
<1>3. f \in Frames /\ f.task = Top.task /\ f.part = "end" /\ f.res = Failed
  BY <1>2, ResultTypes DEF Ends, Frames, Parts
<1> HIDE DEF f
<1>4. Heeds(f)
  BY <1>1, <1>2, <1>3, ResultTypes DEF Heeds, Progress, Sums, Sequences, Calling, Clean
<1> QED
  BY <1>1, <1>3, <1>4 DEF Heeding

LEMMA BeginHeeds ==
  ASSUME TypeInv, Begin
  PROVE  Heeding
<1>1. stack # <<>> /\ Top.part = "start" /\ log' = Noted("enter", Ok) /\ notified' = notified
  BY DEF Begin
<1>2. Top \in Frames /\ Top.res = Ok /\ vars \in Scopes /\ Top.task.kind \in Kinds
  BY <1>1, TopFacts, TaskLogicAssumption DEF Shape, TaskAssumption, TypeInv
<1>3. PICK f \in Frames : /\ stack' = Go(f) /\ f.task = Top.task /\ f.res = Top.res
                          /\ f.part \in {"block", "chart", "judge", "item"}
  <2>1. CASE Top.task.kind = "block"
    <3> DEFINE f == [Top EXCEPT !.part = "block"]
    <3>1. stack' = Go(f)
      BY <2>1 DEF Begin
    <3>2. f \in Frames /\ f.task = Top.task /\ f.res = Top.res /\ f.part = "block"
      BY <1>2 DEF Frames, Parts, Sequences
    <3> QED
      BY <3>1, <3>2
  <2>2. CASE Top.task.kind = "chart"
    <3> DEFINE f == [Top EXCEPT !.part = "chart", !.saved = vars]
    <3>1. stack' = Go(f)
      BY <2>2 DEF Begin
    <3>2. f \in Frames /\ f.task = Top.task /\ f.res = Top.res /\ f.part = "chart"
      BY <1>2 DEF Frames, Parts, Sequences
    <3> QED
      BY <3>1, <3>2
  <2>3. CASE Top.task.kind = "module"
    <3> DEFINE part == IF Items(Top.task) = 0 THEN "judge" ELSE "item"
               f == [Top EXCEPT !.part = part]
    <3>1. stack' = Go(f)
      BY <2>3 DEF Begin
    <3>2. part \in {"judge", "item"}
      OBVIOUS
    <3> HIDE DEF part
    <3>3. f \in Frames /\ f.task = Top.task /\ f.res = Top.res /\ f.part = part
      BY <1>2, <3>2 DEF Frames, Parts
    <3> QED
      BY <3>1, <3>2, <3>3
  <2> QED
    BY <1>2, <2>1, <2>2, <2>3 DEF Kinds
<1>4. Heeds(f)
  BY <1>1, <1>2, <1>3, ResultTypes DEF Heeds, Progress, Sums, Sequences, Calling, Clean
<1> QED
  BY <1>3, <1>4 DEF Heeding

LEMMA EndItemHeeds ==
  ASSUME TypeInv, stack # <<>>, Top.part \in {"item", "attempt"}, NEW r \in Results, ~r.skipped, EndItem(r)
  PROVE  Heeding
<1> DEFINE t == Top.task
           sum == IF t.looped THEN Aggregate(Top.res, r) ELSE r
           part == IF Top.item < Items(t) THEN "item" ELSE IF t.looped /\ sum.lost THEN "end" ELSE "judge"
           f == [Top EXCEPT !.res = sum, !.item = @ + 1, !.left = 0, !.part = part]
<1>1. stack' = Go(f) /\ log' = Noted("item", r) /\ notified' = notified
  BY DEF EndItem
<1>2. t \in Tasks /\ t.kind = "module" /\ t.looped \in BOOLEAN
  BY TopFacts, TaskLogicAssumption DEF TaskAssumption, Shape
<1>3. Top \in Frames /\ Top.res \in Results /\ (~t.looped => Top.res = Ok) /\ Top.item + 1 \in Nat \ {0}
  BY TopFacts DEF Shape
<1>4. /\ sum \in Results
      /\ sum.changed => Top.res.changed \/ r.changed
      /\ Top.res.changed \/ r.changed => sum.changed \/ sum.lost
      /\ ~Top.res.skipped => ~sum.skipped
  <2>1. CASE ~t.looped
    BY <1>3, <2>1, ResultTypes
  <2>2. CASE t.looped /\ Top.res.lost
    <3>1. sum = Top.res
      BY <2>2 DEF Aggregate
    <3> HIDE DEF sum
    <3> QED
      BY <1>3, <2>2, <3>1
  <2>3. CASE t.looped /\ ~Top.res.lost
    <3>1. sum = [Top.res EXCEPT !.changed = @ \/ (r.changed /\ ~r.lost),
                                !.failed = @ \/ (r.failed /\ ~r.lost), !.lost = r.lost]
      BY <2>3 DEF Aggregate
    <3> HIDE DEF sum
    <3> QED
      BY <1>3, <2>3, <3>1 DEF Results
  <2> QED
    BY <1>2, <2>1, <2>2, <2>3
<1>5. part \in {"item", "end", "judge"} /\ (part = "end" => sum.lost)
  OBVIOUS
<1> HIDE DEF sum, part
<1>6. /\ f \in Frames /\ f.task = t /\ f.part = part /\ f.res = sum
  BY <1>3, <1>4, <1>5 DEF Frames, Parts
<1> HIDE DEF f
<1>7. Heeds(f)
  <2>1. Progress(f)
    BY <1>5, <1>6 DEF Progress, Sequences
  <2>2. Sums(f)
    BY <1>1, <1>4, <1>6 DEF Sums
  <2> QED
    BY <1>1, <1>2, <1>4, <1>5, <1>6, <2>1, <2>2 DEF Heeds, Clean
<1> QED
  BY <1>1, <1>6, <1>7 DEF Heeding

LEMMA NoCallHeeds ==
  ASSUME TypeInv, NoCall
  PROVE  Heeding
<1>1. PICK r \in {Lost, Failed} : stack # <<>> /\ Top.part = "item" /\ EndItem(r)
  BY DEF NoCall
<1>2. Lost.skipped = FALSE /\ Failed.skipped = FALSE
  BY DEF Lost, Failed, Res
<1>3. r \in Results /\ ~r.skipped
  BY <1>2, ResultTypes
<1> QED
  BY <1>1, <1>3, EndItemHeeds

LEMMA AttemptNextHeeds ==
  ASSUME TypeInv, stack # <<>>, Top.part \in {"item", "attempt"}, NEW n \in Nat,
         stack' = Go([Top EXCEPT !.part = "attempt", !.left = n]), log' = log, notified' = notified
  PROVE  Heeding
<1> DEFINE f == [Top EXCEPT !.part = "attempt", !.left = n]
<1>1. Top \in Frames /\ Top.task.kind = "module"
  BY TopFacts DEF Shape
<1>2. f \in Frames /\ f.task = Top.task /\ f.part = "attempt" /\ f.res = Top.res /\ stack' = Go(f)
  BY <1>1 DEF Frames, Parts
<1> HIDE DEF f
<1>3. Heeds(f)
  BY <1>1, <1>2 DEF Heeds, Progress, Sums, Sequences, Calling
<1> QED
  BY <1>2, <1>3 DEF Heeding

LEMMA PrepareHeeds ==
  ASSUME TypeInv, Prepare
  PROVE  Heeding
<1>1. /\ stack # <<>> /\ Top.part = "item" /\ notified' = notified /\ log' = log
      /\ stack' = Go([Top EXCEPT !.part = "attempt", !.left = Attempts(Top.task)])
  BY DEF Prepare
<1>2. Attempts(Top.task) \in Nat
  BY <1>1, TopFacts, AttemptsType
<1> QED
  BY <1>1, <1>2, AttemptNextHeeds

LEMMA AttemptHeeds ==
  ASSUME TypeInv, Attempt
  PROVE  Heeding
<1>1. stack # <<>> /\ Top.part = "attempt"
  BY DEF Attempt
<1>2. PICK r \in Outcomes, met \in {"yes", "no", "error"} :
        \/ stack' = Go(NextAttempt(Top)) /\ notified' = notified /\ log' = log /\ Top.left > 1
        \/ EndItem(IF met = "yes" THEN r ELSE [r EXCEPT !.failed = TRUE])
  BY DEF Attempt
<1>3. CASE stack' = Go(NextAttempt(Top)) /\ notified' = notified /\ log' = log /\ Top.left > 1
  <2>1. Top \in Frames /\ Top.left \in Nat
    BY <1>1, TopFacts
  <2>2. Top.left - 1 \in Nat
    BY <1>3, <2>1
  <2>3. NextAttempt(Top) = [Top EXCEPT !.part = "attempt", !.left = Top.left - 1]
    BY <1>1, <2>1 DEF NextAttempt, Frames
  <2> QED
    BY <1>1, <1>3, <2>2, <2>3, AttemptNextHeeds
<1>4. CASE EndItem(IF met = "yes" THEN r ELSE [r EXCEPT !.failed = TRUE])
  <2> DEFINE s == IF met = "yes" THEN r ELSE [r EXCEPT !.failed = TRUE]
  <2>1. s \in Results /\ ~s.skipped
    BY DEF Results, Outcomes
  <2> QED
    BY <1>1, <1>4, <2>1, EndItemHeeds
<1> QED
  BY <1>2, <1>3, <1>4

LEMMA TimedOutHeeds ==
  ASSUME TypeInv, TimedOut
  PROVE  Heeding
<1>1. stack # <<>> /\ Top.part = "attempt"
  BY DEF TimedOut
<1>2. PICK r \in {Lost} \cup {Res(changed, TRUE, TRUE) : changed \in BOOLEAN} : EndItem(r)
  BY DEF TimedOut
<1>3. r \in Results /\ ~r.skipped
  <2>1. Lost \in Results /\ Lost.skipped = FALSE
    BY ResultTypes DEF Lost, Res
  <2>2. \A changed \in BOOLEAN : Res(changed, TRUE, TRUE) \in Results /\ Res(changed, TRUE, TRUE).skipped = FALSE
    BY ResultTypes DEF Res
  <2> QED
    BY <1>2, <2>1, <2>2
<1> QED
  BY <1>1, <1>2, <1>3, EndItemHeeds

LEMMA JudgeHeeds ==
  ASSUME TypeInv, Judge, ~Top.res.skipped
  PROVE  Heeding
<1> DEFINE t == Top.task
           judged == [Top.res EXCEPT !.changed = Judged(t.changed_when, @), !.failed = Judged(t.failed_when, @)]
           broken == [Top.res EXCEPT !.failed = TRUE]
<1>1. stack # <<>> /\ Top.part = "judge" /\ log' = log
  BY DEF Judge
<1>2. t \in Tasks /\ t.kind = "module" /\ t.changed_when \in Judgements /\ t.failed_when \in Judgements
  BY <1>1, TopFacts, TaskLogicAssumption DEF TaskAssumption, Shape
<1>3. Top.res \in Results /\ Top \in Frames
  BY <1>1, TopFacts
<1>4. CASE "error" \in {t.changed_when, t.failed_when}
  <2> DEFINE f == Ends(broken)
  <2>1. stack' = Go(f) /\ notified' = notified
    BY <1>4 DEF Judge
  <2>2. broken \in Results /\ broken.failed
    BY <1>3 DEF Results
  <2> HIDE DEF broken
  <2>3. f \in Frames /\ f.task = t /\ f.part = "end" /\ f.res = broken
    BY <1>3, <2>2 DEF Ends, Frames, Parts
  <2> HIDE DEF f
  <2>4. Heeds(f)
    BY <1>1, <1>2, <2>1, <2>2, <2>3 DEF Heeds, Progress, Sums, Sequences, Calling, Clean
  <2> QED
    BY <2>1, <2>3, <2>4 DEF Heeding
<1>5. CASE ~("error" \in {t.changed_when, t.failed_when})
  <2> DEFINE f == Ends(judged)
  <2>1. stack' = Go(f) /\ notified' = Notify(t, judged)
    BY <1>5 DEF Judge
  <2>2. /\ judged \in Results /\ ~judged.skipped /\ judged.lost = Top.res.lost
        /\ judged.changed = Judged(t.changed_when, Top.res.changed)
    BY <1>2, <1>3 DEF Judged, Results, Judgements
  <2> HIDE DEF judged
  <2>3. f \in Frames /\ f.task = t /\ f.part = "end" /\ f.res = judged
    BY <1>3, <2>2 DEF Ends, Frames, Parts
  <2> HIDE DEF f
  <2>4. CASE ~judged.failed
    <3>1. Concludes(f)
      BY <1>1, <1>2, <2>1, <2>2, <2>3, <2>4 DEF Concludes
    <3>2. Heeds(f)
      BY <1>1, <1>2, <2>3, <3>1 DEF Heeds, Progress, Sums, Sequences, Calling
    <3> QED
      BY <2>1, <2>3, <3>2 DEF Heeding
  <2>5. CASE judged.failed
    <3>1. notified' = notified
      BY <2>1, <2>5 DEF Notify
    <3>2. Heeds(f)
      BY <1>1, <1>2, <2>3, <2>5, <3>1 DEF Heeds, Progress, Sums, Sequences, Calling, Clean
    <3> QED
      BY <2>1, <2>3, <3>2 DEF Heeding
  <2> QED
    BY <2>4, <2>5
<1> QED
  BY <1>4, <1>5

LEMMA PartEndsHeeds ==
  ASSUME TypeInv, PartEnds
  PROVE  Heeding
<1> DEFINE part == IF Top.part = "always" THEN "end" ELSE "always"
           f == To(Top, part)
<1>1. /\ stack # <<>> /\ Top.part \in {"block", "rescue", "always"} /\ log' = log /\ notified' = notified
      /\ stack' = Go(f)
  BY DEF PartEnds, Sequences
<1>2. Top \in Frames /\ Top.task.kind = "block"
  BY <1>1, TopFacts DEF Shape
<1>3. IF Top.part = "always" THEN part = "end" ELSE part = "always"
  OBVIOUS
<1> HIDE DEF part
<1>4. f \in Frames /\ f.task = Top.task /\ f.part = part /\ f.res = Top.res /\ f.item = Top.item
  BY <1>2, <1>3 DEF To, Frames, Parts, Sequences
<1> HIDE DEF f
<1>5. Progress(f)
  BY <1>1, <1>3, <1>4 DEF Progress, Onward
<1>6. Heeds(f)
  BY <1>1, <1>2, <1>3, <1>4, <1>5 DEF Heeds, Sums, Calling
<1> QED
  BY <1>1, <1>4, <1>6 DEF Heeding

LEMMA ItemEndsHeeds ==
  ASSUME TypeInv, ItemEnds, ~Top.res.skipped
  PROVE  Heeding
<1>1. stack # <<>> /\ Top.part = "chart" /\ log' = log
  BY DEF ItemEnds
<1>2. Top \in Frames /\ Top.task.kind = "chart" /\ Top.item \in Nat \ {0} /\ Top.res \in Results
  BY <1>1, TopFacts DEF Shape
<1>3. CASE Top.item < Items(Top.task)
  <2> DEFINE f == [Top EXCEPT !.item = @ + 1, !.pos = 0]
  <2>1. stack' = Go(f) /\ notified' = notified
    BY <1>3 DEF ItemEnds
  <2>2. f \in Frames /\ f.task = Top.task /\ f.part = "chart" /\ f.res = Top.res /\ f.item > Top.item
    <3>1. Top.item + 1 \in Nat \ {0} /\ Top.item + 1 > Top.item
      BY <1>2
    <3>2. f \in Frames /\ f.task = Top.task /\ f.part = "chart" /\ f.res = Top.res /\ f.item = Top.item + 1
      BY <1>1, <1>2, <3>1 DEF Frames
    <3> QED
      BY <3>1, <3>2
  <2> HIDE DEF f
  <2>3. Heeds(f)
    BY <1>1, <1>2, <2>1, <2>2 DEF Heeds, Progress, Sums, Sequences, Calling
  <2> QED
    BY <2>1, <2>2, <2>3 DEF Heeding
<1>4. CASE ~(Top.item < Items(Top.task))
  <2> DEFINE f == Ends(Top.res)
  <2>1. stack' = Go(f) /\ notified' = Notify(Top.task, Top.res)
    BY <1>4 DEF ItemEnds
  <2>2. f \in Frames /\ f.task = Top.task /\ f.part = "end" /\ f.res = Top.res
    BY <1>2 DEF Ends, Frames, Parts
  <2> HIDE DEF f
  <2>3. CASE ~f.res.failed
    <3>1. Concludes(f)
      BY <1>1, <1>2, <2>1, <2>2, <2>3 DEF Concludes
    <3>2. Heeds(f)
      BY <1>1, <1>2, <2>2, <3>1 DEF Heeds, Progress, Sums, Sequences, Calling
    <3> QED
      BY <2>1, <2>2, <3>2 DEF Heeding
  <2>4. CASE f.res.failed
    <3>1. notified' = notified
      BY <2>1, <2>2, <2>4 DEF Notify
    <3>2. Heeds(f)
      BY <1>1, <1>2, <2>2, <2>4, <3>1 DEF Heeds, Progress, Sums, Sequences, Calling, Clean
    <3> QED
      BY <2>1, <2>2, <3>2 DEF Heeding
  <2> QED
    BY <2>3, <2>4
<1> QED
  BY <1>3, <1>4

(* What a frame adds up of the result of its task.                         *)
Adds(f, r, g) ==
  /\ f.res.changed => g.res.changed
  /\ g.res.changed => f.res.changed \/ r.changed
  /\ r.changed => g.res.changed \/ g.res.lost
  /\ g.res.skipped = f.res.skipped
  /\ f.part = "chart" /\ g.part = "end" => g.res.lost

LEMMA ToldAdds ==
  ASSUME NEW f \in Frames, NEW t \in Tasks, NEW r \in Results
  PROVE  Adds(f, r, Told(f, t, r))
<1>1. f.res \in Results
  BY DEF Frames
<1> DEFINE g == [f EXCEPT !.res.changed = @ \/ r.changed]
<1>2. /\ g \in Frames /\ g.res \in Results /\ g.part = f.part
      /\ g.res.changed = (f.res.changed \/ r.changed) /\ g.res.skipped = f.res.skipped
  BY <1>1 DEF Frames, Results
<1>3. Told(f, t, r) =
        IF r.lost /\ f.part = "chart" THEN To([f EXCEPT !.res.lost = TRUE], "end")
        ELSE IF r.lost THEN To([g EXCEPT !.res.lost = TRUE], AfterLost(f.part))
        ELSE IF ~r.failed \/ t.ignore THEN g
        ELSE IF f.part = "chart" THEN [g EXCEPT !.res.failed = TRUE, !.pos = Len(Children(f))]
        ELSE AfterFailure(g)
  BY DEF Told
<1> HIDE DEF g
<1>4. CASE r.lost /\ f.part = "chart"
  <2> DEFINE h == To([f EXCEPT !.res.lost = TRUE], "end")
  <2>1. Told(f, t, r) = h
    BY <1>3, <1>4
  <2>2. h.res.lost /\ h.res.changed = f.res.changed /\ h.res.skipped = f.res.skipped
    BY <1>1 DEF To, Frames, Results
  <2> HIDE DEF h
  <2> QED
    BY <2>1, <2>2 DEF Adds
<1>5. CASE ~(r.lost /\ f.part = "chart")
  <2> DEFINE h == Told(f, t, r)
  <2>1. /\ h.res.changed = g.res.changed /\ h.res.skipped = g.res.skipped
        /\ f.part = "chart" => h.part = "chart"
    <3>1. CASE r.lost
      <4>1. h = To([g EXCEPT !.res.lost = TRUE], AfterLost(f.part))
        BY <1>3, <1>5, <3>1
      <4> HIDE DEF h
      <4>2. h.res = [g.res EXCEPT !.lost = TRUE]
        BY <1>2, <4>1 DEF To, Frames
      <4> QED
        BY <1>2, <1>5, <3>1, <4>2 DEF Results
    <3>2. CASE ~r.lost /\ (~r.failed \/ t.ignore)
      <4>1. h = g
        BY <1>3, <3>2
      <4> HIDE DEF h
      <4> QED
        BY <1>2, <4>1
    <3>3. CASE ~r.lost /\ ~(~r.failed \/ t.ignore) /\ f.part = "chart"
      <4>1. h = [g EXCEPT !.res.failed = TRUE, !.pos = Len(Children(f))]
        BY <1>3, <3>3
      <4> HIDE DEF h
      <4> QED
        BY <1>2, <4>1 DEF Frames, Results
    <3>4. CASE ~r.lost /\ ~(~r.failed \/ t.ignore) /\ f.part # "chart"
      <4>1. h = AfterFailure(g)
        BY <1>3, <3>4
      <4>2. \/ h = To([g EXCEPT !.failed = TRUE], "rescue")
            \/ h = To([g EXCEPT !.res.failed = @ \/ ~g.res.lost], "end")
            \/ h = To([g EXCEPT !.failed = TRUE, !.res.failed = TRUE], "always")
        BY <4>1 DEF AfterFailure
      <4> HIDE DEF h
      <4>3. \/ h.res = g.res
            \/ h.res = [g.res EXCEPT !.failed = @ \/ ~g.res.lost]
            \/ h.res = [g.res EXCEPT !.failed = TRUE]
        <5>1. ASSUME h = To([g EXCEPT !.failed = TRUE], "rescue") PROVE h.res = g.res
          BY <1>2, <5>1 DEF To, Frames
        <5>2. ASSUME h = To([g EXCEPT !.res.failed = @ \/ ~g.res.lost], "end")
              PROVE  h.res = [g.res EXCEPT !.failed = @ \/ ~g.res.lost]
          BY <1>2, <5>2 DEF To, Frames
        <5>3. ASSUME h = To([g EXCEPT !.failed = TRUE, !.res.failed = TRUE], "always")
              PROVE  h.res = [g.res EXCEPT !.failed = TRUE]
          BY <1>2, <5>3 DEF To, Frames
        <5> QED
          BY <4>2, <5>1, <5>2, <5>3
      <4>4. h.res.changed = g.res.changed /\ h.res.skipped = g.res.skipped
        BY <1>2, <4>3 DEF Results
      <4> QED
        BY <3>4, <4>4
    <3> QED
      BY <3>1, <3>2, <3>3, <3>4
  <2> HIDE DEF h
  <2>2. Adds(f, r, h)
    BY <1>2, <2>1 DEF Adds
  <2> QED
    BY <2>2 DEF h
<1> QED
  BY <1>4, <1>5

Unskipped == \A i \in 1 .. Len(stack) : stack[i].part # "end" => ~stack[i].res.skipped

(* The same frame does it all.                                             *)
LEMMA EveryStepHeeds ==
  ASSUME TypeInv, Unskipped, Next
  PROVE  \/ \E f : Turn(f) /\ Heeds(f)
         \/ \E f, g : Deepens(f, g)
         \/ Closes /\ notified' = notified
         \/ \E g : Pops(g) /\ Adds(Parent, Top.res, g) /\ notified' = notified
<1>1. stack \in Seq(Frames)
  BY DEF TypeInv
<1>2. ASSUME NEW f, Turn(f), Heeding PROVE \E h : Turn(h) /\ Heeds(h)
  <2>1. PICK h \in Frames : stack' = Go(h) /\ Heeds(h)
    BY <1>2 DEF Heeding
  <2>2. stack # <<>> /\ stack' = Go(f) /\ f \in Frames
    BY <1>2 DEF Turn
  <2>3. f = h
    BY <1>1, <2>1, <2>2, Gone
  <2> QED
    BY <1>2, <2>1, <2>3
<1>3. ASSUME Skip \/ Refused \/ Begin \/ NoCall \/ Prepare \/ Attempt \/ TimedOut \/ Judge \/ PartEnds \/ ItemEnds
      PROVE  \E f : Turn(f) /\ Heeds(f)
  <2>1. \E f : Turn(f)
    BY <1>3, SkipTurns, RefusedTurns, BeginTurns, NoCallTurns, PrepareTurns, AttemptTurns, TimedOutTurns,
       JudgeTurns, PartEndsTurns, ItemEndsTurns
  <2>2. Judge \/ ItemEnds => ~Top.res.skipped
    <3>1. ASSUME Judge \/ ItemEnds PROVE ~Top.res.skipped
      <4>1. stack # <<>> /\ Top.part \in {"judge", "chart"}
        BY <3>1 DEF Judge, ItemEnds
      <4>2. Len(stack) \in 1 .. Len(stack) /\ Top = stack[Len(stack)]
        BY <4>1, TopFacts
      <4> QED
        BY <4>1, <4>2 DEF Unskipped
    <3> QED
      BY <3>1
  <2>3. Heeding
    BY <1>3, <2>2, SkipHeeds, RefusedHeeds, BeginHeeds, NoCallHeeds, PrepareHeeds, AttemptHeeds, TimedOutHeeds,
       JudgeHeeds, PartEndsHeeds, ItemEndsHeeds
  <2> QED
    BY <1>2, <2>1, <2>3
<1>4. CASE Enter
  BY <1>4, EnterDeepens
<1>5. CASE Return
  <2>1. notified' = notified
    BY <1>5 DEF Return
  <2>2. ASSUME NEW g, Pops(g) PROVE Adds(Parent, Top.res, g)
    <3>1. stack # <<>> /\ Len(stack) # 1 /\ stack' = Append(SubSeq(stack, 1, Len(stack) - 2), g)
      BY <2>2 DEF Pops
    <3>2. stack' = Append(SubSeq(stack, 1, Len(stack) - 2), Told(Parent, Top.task, Top.res))
      BY <1>5, <3>1 DEF Return, Parent
    <3>3. Told(Parent, Top.task, Top.res) = g
      <4>1. SubSeq(stack, 1, Len(stack) - 2) \in Seq(Frames)
        <5>1. Len(stack) - 2 \in Int /\ 1 \in Int /\ \A i \in 1 .. Len(stack) - 2 : stack[i] \in Frames
          BY <1>1
        <5> QED
          BY <5>1, SubSeqProperties
      <4>2. ASSUME NEW s \in Seq(Frames), NEW a, NEW b, Append(s, a) = Append(s, b)
            PROVE  a = b
        <5>1. Append(s, a)[Len(s) + 1] = a /\ Append(s, b)[Len(s) + 1] = b
          OBVIOUS
        <5> QED
          BY <4>2, <5>1
      <4> QED
        BY <3>1, <3>2, <4>1, <4>2
    <3> QED
      BY <3>1, <3>3, ParentFacts, TopFacts, ToldAdds
  <2> QED
    BY <1>5, <2>1, <2>2, ReturnEnds
<1> QED
  BY <1>3, <1>4, <1>5 DEF Next

-----------------------------------------------------------------------------
(* Where the run has been.  Every path of the history that goes through a  *)
(* frame went to a part of it that is over, or to a task of its list that  *)
(* it has come to; so a task that begins has no history of its own.        *)
Paths == {log[i].path : i \in 1 .. Len(log)}

Earlier(place, f) ==
  \/ f.part = "end"
  \/ place.item < f.item
  \/ place.item = f.item /\ <<place.part, f.part>> \in Onward

Been(q, n) ==
  \/ Earlier(q[n], stack[n])
  \/ /\ q[n] = Place(stack[n])
     /\ \E k \in DOMAIN Children(stack[n]) : k <= stack[n].pos /\ q[n + 1].name = Children(stack[n])[k].name

Visited == \A q \in Paths, n \in Nat \ {0} : n < Len(q) /\ Along(q, n) => Been(q, n)

Unbegun == stack # <<>> /\ Top.part = "start" => \A q \in Paths : ~Along(q, Len(stack))

Kinded ==
  /\ \A q \in Paths : \A j \in 1 .. Len(q) - 1 : Named(q[j].name).kind # "module"
  /\ \A e \in Events("item") : Of(e).kind = "module"

HistoryInv == Unskipped /\ Visited /\ Unbegun /\ Kinded

LEMMA PathsType ==
  ASSUME TypeInv
  PROVE  /\ \A q \in Paths : q \in Seq(Places) \ {<<>>} /\ Len(q) \in Nat \ {0}
         /\ \A w : \A e \in Events(w) : e.path \in Paths
<1>1. ASSUME NEW q \in Paths PROVE q \in Seq(Places) \ {<<>>}
  <2>1. PICK i \in 1 .. Len(log) : q = log[i].path
    BY DEF Paths
  <2>2. log[i] \in Entries
    BY DEF TypeInv
  <2> QED
    BY <2>1, <2>2 DEF Entries
<1>2. ASSUME NEW w, NEW e \in Events(w) PROVE e.path \in Paths
  BY EventIs DEF Paths
<1> QED
  BY <1>1, <1>2, EmptySeq

LEMMA PathsGrow ==
  ASSUME TypeInv, TypeInv', stack # <<>>, NEW r \in Results, NEW what \in {"enter", "item", "leave"},
         log' = Noted(what, r)
  PROVE  Paths' = Paths \cup {Path}
<1>1. /\ Len(log') = Len(log) + 1 /\ Len(log) \in Nat /\ log'[Len(log) + 1].path = Path
      /\ \A i \in 1 .. Len(log) : log'[i] = log[i]
  <2> DEFINE s == Noted(what, r)
             x == [what |-> what, path |-> Path, res |-> r]
  <2>1. /\ Len(s) = Len(log) + 1 /\ Len(log) \in Nat /\ s[Len(log) + 1] = x
        /\ \A i \in 1 .. Len(log) : s[i] = log[i]
    BY NotedType
  <2>2. log' = s /\ x.path = Path
    OBVIOUS
  <2> HIDE DEF s, x
  <2> QED
    BY <2>1, <2>2
<1>2. \A i \in 1 .. Len(log') : i = Len(log) + 1 \/ i \in 1 .. Len(log)
  BY <1>1
<1>3. Len(log) + 1 \in 1 .. Len(log') /\ \A i \in 1 .. Len(log) : i \in 1 .. Len(log')
  BY <1>1
<1>4. \A q : q \in Paths' <=> \E i \in 1 .. Len(log') : q = log'[i].path
  BY DEF Paths
<1>5. \A q : q \in Paths <=> \E i \in 1 .. Len(log) : q = log[i].path
  BY DEF Paths
<1>6. \A q : q \in Paths' <=> q \in Paths \/ q = Path
  BY <1>1, <1>2, <1>3, <1>4, <1>5
<1> QED
  BY <1>6

(* A frame goes on.                                                        *)
LEMMA OnwardEarlier ==
  ASSUME NEW place \in Places, NEW f \in Frames, NEW g \in Frames, f.part \in Sequences,
         \/ g.part = "end"
         \/ g.item = f.item /\ <<f.part, g.part>> \in Onward
         \/ g.item > f.item,
         Earlier(place, f) \/ place = Place(f)
  PROVE  Earlier(place, g)
<1>1. f.item \in Nat /\ g.item \in Nat /\ place.item \in Nat
  BY DEF Frames, Places
<1>2. \/ place.item < f.item
      \/ place.item = f.item /\ (<<place.part, f.part>> \in Onward \/ place.part = f.part)
  BY DEF Earlier, Place, Sequences
<1>3. CASE g.item > f.item
  BY <1>1, <1>2, <1>3 DEF Earlier
<1>4. CASE g.item = f.item /\ <<f.part, g.part>> \in Onward
  <2>1. <<place.part, f.part>> \in Onward \/ place.part = f.part => <<place.part, g.part>> \in Onward
    BY <1>4 DEF Onward
  <2> QED
    BY <1>1, <1>2, <1>4, <2>1 DEF Earlier
<1> QED
  BY <1>3, <1>4 DEF Earlier

(* The path of this moment has been where the frames are.                  *)
LEMMA PathBeen ==
  ASSUME TypeInv, stack # <<>>, NEW n \in Nat \ {0}, n < Len(stack)
  PROVE  Been(Path, n)
<1>1. Len(stack) \in Nat \ {0}
  BY TopFacts
<1>2. n \in 1 .. Len(stack) - 1 /\ n \in 1 .. Len(stack) /\ n + 1 \in 1 .. Len(stack)
  BY <1>1
<1>3. /\ stack[n].pos \in DOMAIN Children(stack[n])
      /\ Children(stack[n])[stack[n].pos] = stack[n + 1].task
  BY <1>2 DEF TypeInv
<1>4. Path[n] = Place(stack[n]) /\ Path[n + 1].name = stack[n + 1].task.name
  BY <1>2, PathAlong
<1>5. stack[n].pos <= stack[n].pos
  <2>1. stack[n] \in Frames
    BY <1>2 DEF TypeInv
  <2> QED
    BY <2>1 DEF Frames
<1> QED
  BY <1>3, <1>4, <1>5 DEF Been

(* Which tasks of a path are on the stack changes only where a task begins *)
(* or ends.                                                                *)
LEMMA AlongOnce ==
  ASSUME NEW q, NEW n \in Nat \ {0}, n <= Len(stack), n <= Len(stack'), Len(stack) \in Nat, Len(stack') \in Nat,
         \A i \in 1 .. n - 1 : Place(stack'[i]) = Place(stack[i]), stack'[n].task = stack[n].task
  PROVE  Along(q, n)' <=> Along(q, n)
BY DEF Along

LEMMA TurnAlong ==
  ASSUME TypeInv, NEW f, Turn(f)
  PROVE  \A q : \A n : Along(q, n)' <=> Along(q, n)
<1>1. /\ Len(stack) \in Nat \ {0} /\ Len(stack') = Len(stack) /\ stack'[Len(stack)] = f /\ Top = stack[Len(stack)]
      /\ \A i \in 1 .. Len(stack) - 1 : stack'[i] = stack[i]
  BY TurnFrames DEF TypeInv
<1>2. f.task = Top.task
  BY DEF Turn
<1>3. ASSUME NEW q, NEW n PROVE Along(q, n)' <=> Along(q, n)
  <2>1. CASE n \in 1 .. Len(stack)
    <3>1. n \in Nat \ {0} /\ n <= Len(stack) /\ \A i \in 1 .. n - 1 : i \in 1 .. Len(stack) - 1
      BY <1>1, <2>1
    <3>2. stack'[n].task = stack[n].task
      <4>1. n = Len(stack) \/ n \in 1 .. Len(stack) - 1
        BY <1>1, <2>1
      <4> QED
        BY <1>1, <1>2, <4>1
    <3> QED
      BY <1>1, <3>1, <3>2, AlongOnce
  <2>2. CASE n \notin 1 .. Len(stack)
    BY <1>1, <2>2 DEF Along
  <2> QED
    BY <2>1, <2>2
<1> QED
  BY <1>3

LEMMA DeepensAlong ==
  ASSUME TypeInv, NEW f, NEW g, Deepens(f, g)
  PROVE  \A q : \A n : n # Len(stack) + 1 => (Along(q, n)' <=> Along(q, n))
<1>1. /\ Len(stack) \in Nat \ {0} /\ Len(stack') = Len(stack) + 1 /\ Top = stack[Len(stack)]
      /\ stack'[Len(stack)] = f
      /\ \A i \in 1 .. Len(stack) - 1 : stack'[i] = stack[i]
  BY DeepensFrames DEF TypeInv
<1>2. f.task = Top.task
  BY DEF Deepens
<1>3. ASSUME NEW q, NEW n, n # Len(stack) + 1 PROVE Along(q, n)' <=> Along(q, n)
  <2>1. CASE n \in 1 .. Len(stack)
    <3>1. n \in Nat \ {0} /\ n <= Len(stack) /\ n <= Len(stack') /\ \A i \in 1 .. n - 1 : i \in 1 .. Len(stack) - 1
      BY <1>1, <2>1
    <3>2. stack'[n].task = stack[n].task
      <4>1. n = Len(stack) \/ n \in 1 .. Len(stack) - 1
        BY <1>1, <2>1
      <4> QED
        BY <1>1, <1>2, <4>1
    <3> QED
      BY <1>1, <3>1, <3>2, AlongOnce
  <2>2. CASE n \notin 1 .. Len(stack)
    <3>1. n \notin 1 .. Len(stack')
      BY <1>1, <1>3, <2>2
    <3> QED
      BY <2>2, <3>1 DEF Along
  <2> QED
    BY <2>1, <2>2
<1> QED
  BY <1>3

LEMMA PopsAlong ==
  ASSUME TypeInv, NEW g, Pops(g)
  PROVE  \A q : \A n : /\ n # Len(stack) => (Along(q, n)' <=> Along(q, n))
                       /\ Along(q, n)' => n # Len(stack)
<1>1. /\ Len(stack) \in Nat /\ Len(stack) >= 2 /\ Len(stack) - 1 \in Nat \ {0}
      /\ Len(stack') = Len(stack) - 1
      /\ \A i \in 1 .. Len(stack) - 2 : stack'[i] = stack[i]
      /\ stack'[Len(stack) - 1] = g /\ Parent = stack[Len(stack) - 1] /\ g.task = Parent.task
  BY PopsFacts
<1>2. ASSUME NEW q, NEW n, n # Len(stack) PROVE Along(q, n)' <=> Along(q, n)
  <2>1. CASE n \in 1 .. Len(stack) - 1
    <3>1. n \in Nat \ {0} /\ n <= Len(stack) /\ n <= Len(stack') /\ \A i \in 1 .. n - 1 : i \in 1 .. Len(stack) - 2
      BY <1>1, <2>1
    <3>2. stack'[n].task = stack[n].task
      <4>1. n = Len(stack) - 1 \/ n \in 1 .. Len(stack) - 2
        BY <1>1, <2>1
      <4> QED
        BY <1>1, <4>1
    <3> QED
      BY <1>1, <3>1, <3>2, AlongOnce
  <2>2. CASE n \notin 1 .. Len(stack) - 1
    <3>1. n \notin 1 .. Len(stack') /\ n \notin 1 .. Len(stack)
      BY <1>1, <1>2, <2>2
    <3> QED
      BY <3>1 DEF Along
  <2> QED
    BY <2>1, <2>2
<1>3. ASSUME NEW q, NEW n, Along(q, n)' PROVE n # Len(stack)
  <2>1. n \in 1 .. Len(stack')
    BY <1>3 DEF Along
  <2> QED
    BY <1>1, <2>1
<1> QED
  BY <1>2, <1>3

(* What a step records: nothing but the path of its moment.                *)
LEMMA TurnPaths ==
  ASSUME TypeInv, TypeInv', NEW f, Turn(f)
  PROVE  Paths' = Paths \/ Paths' = Paths \cup {Path}
<1>1. stack # <<>> /\ Answers(f)
  BY DEF Turn
<1>2. CASE log' = log
  BY <1>2 DEF Paths
<1>3. ASSUME NEW r \in Results, NEW what \in {"enter", "item"}, log' = Noted(what, r)
      PROVE  Paths' = Paths \cup {Path}
  BY <1>1, <1>3, PathsGrow
<1> QED
  BY <1>1, <1>2, <1>3, ResultTypes DEF Answers

LEMMA PopsPaths ==
  ASSUME TypeInv, TypeInv', Closes \/ \E g : Pops(g)
  PROVE  Paths' = Paths \cup {Path} /\ Events("item")' = Events("item")
<1>1. stack # <<>> /\ log' = Noted("leave", Top.res)
  BY DEF Closes, Pops
<1>2. Top.res \in Results
  BY <1>1, TopFacts
<1>3. \A e : (e \in Events("item"))' <=> e \in Events("item")
  BY StepEvents
<1> QED
  BY <1>1, <1>2, <1>3, PathsGrow

(* The tasks of a path that have tasks are no calls.                       *)
LEMMA PathKinded ==
  ASSUME TypeInv, stack # <<>>
  PROVE  \A j \in 1 .. Len(Path) - 1 : Named(Path[j].name).kind # "module"
<1>1. Len(stack) \in Nat \ {0} /\ Len(Path) = Len(stack)
  BY TopFacts, PathAlong
<1>2. ASSUME NEW j \in 1 .. Len(stack) - 1 PROVE Named(Path[j].name).kind # "module"
  <2>1. j \in 1 .. Len(stack) /\ stack[j].part \in Sequences /\ stack[j] \in Frames
    BY <1>1, <1>2 DEF TypeInv
  <2>2. Shape(stack[j])
    BY <2>1 DEF TypeInv
  <2>3. stack[j].task.kind \in {"block", "chart"}
    BY <2>1, <2>2 DEF Shape, Sequences
  <2>4. Path[j].name = stack[j].task.name
    BY <2>1, PathAlong
  <2>5. Named(Path[j].name) = stack[j].task
    BY <2>1, <2>4, NamedTask DEF Frames
  <2> QED
    BY <2>3, <2>5
<1> QED
  BY <1>1, <1>2

LEMMA TurnHistory ==
  ASSUME TypeInv, TypeInv', HistoryInv, NEW f, Turn(f), Heeds(f)
  PROVE  HistoryInv'
<1>0. PICK n : n = Len(stack)
  OBVIOUS
<1>1. /\ n \in Nat \ {0} /\ Len(stack') = n /\ stack'[n] = f /\ Top = stack[n]
      /\ \A i \in 1 .. n - 1 : stack'[i] = stack[i]
  BY <1>0, TurnFrames DEF TypeInv
<1>2. /\ f.task = Top.task /\ f \in Frames /\ Top \in Frames /\ Shape(Top) /\ stack # <<>> /\ stack' # <<>>
      /\ Progress(f) /\ Sums(f) /\ Top' = f
  <2>1. stack # <<>> /\ f.task = Top.task /\ f \in Frames /\ Progress(f) /\ Sums(f)
    BY DEF Turn, Heeds
  <2>2. stack' # <<>>
    BY <1>1
  <2>3. Top' = f
    BY <1>1 DEF Top, Last
  <2> QED
    BY <2>1, <2>2, <2>3, TopFacts
<1>3. \A m \in 1 .. n : m = n \/ m \in 1 .. n - 1
  BY <1>1
<1>4. Unskipped'
  <2>1. n \in 1 .. n
    BY <1>1
  <2>2. f.part # "end" => ~f.res.skipped
    BY <1>0, <1>1, <1>2, <2>1 DEF HistoryInv, Unskipped, Heeds, Progress
  <2>3. \A i \in 1 .. n : stack'[i].part # "end" => ~stack'[i].res.skipped
    BY <1>0, <1>1, <1>3, <2>2 DEF HistoryInv, Unskipped
  <2> QED
    BY <1>1, <2>3 DEF Unskipped
<1>5. Unbegun'
  BY <1>2 DEF Unbegun, Progress
<1>6. Kinded'
  <2>1. \A q \in Paths' : \A j \in 1 .. Len(q) - 1 : Named(q[j].name).kind # "module"
    BY <1>2, TurnPaths, PathKinded DEF HistoryInv, Kinded
  <2>2. ASSUME NEW e, (e \in Events("item"))' PROVE Of(e).kind = "module"
    <3>1. CASE e \in Events("item")
      BY <3>1 DEF HistoryInv, Kinded
    <3>2. CASE e \notin Events("item")
      <4>1. ~(log' = log) /\ ~(log' = Noted("enter", Ok))
        BY <1>2, <2>2, <3>2, EventsStay, EventsGrow, ResultTypes
      <4>2. PICK r \in Results : log' = Noted("item", r) /\ Top.part \in {"item", "attempt"}
        BY <1>2, <4>1 DEF Sums
      <4>3. e = [what |-> "item", path |-> Path, res |-> r]
        BY <1>2, <2>2, <3>2, <4>2, EventsGrow
      <4>4. e.path = Path /\ Len(e.path) = n /\ Along(e.path, n) /\ e.path \in Seq(Places) \ {<<>>}
        BY <1>0, <1>2, <4>3, PathAlong
      <4>5. Of(e) = Top.task
        BY <1>1, <4>4, AlongTask
      <4> QED
        BY <1>2, <4>2, <4>5 DEF Shape
    <3> QED
      BY <3>1, <3>2
  <2> QED
    BY <2>1, <2>2 DEF Kinded, Named, Of
<1>7. ASSUME NEW q, q \in Paths', NEW m \in Nat \ {0}, m < Len(q), Along(q, m)'
      PROVE  Been(q, m)'
  <2>1. Along(q, m) /\ m \in 1 .. n /\ q \in Seq(Places)
    <3>1. Along(q, m)
      BY <1>7, TurnAlong
    <3>2. q \in Seq(Places)
      BY <1>2, <1>7, TurnPaths, PathsType, PathAlong
    <3> QED
      BY <1>0, <3>1, <3>2 DEF Along
  <2>2. q \in Paths => Been(q, m)
    BY <1>7, <2>1 DEF HistoryInv, Visited
  <2>3. q = Path \/ q \in Paths
    BY <1>7, TurnPaths
  <2>4. m < n => Been(q, m)
    BY <1>0, <1>2, <2>2, <2>3, PathBeen
  <2>5. CASE m < n
    <3>1. stack'[m] = stack[m]
      <4>1. m \in 1 .. n - 1
        BY <1>1, <2>1, <2>5
      <4> QED
        BY <1>1, <4>1
    <3> QED
      BY <2>4, <2>5, <3>1 DEF Been, Earlier
  <2>6. CASE m = n
    <3>1. q \in Paths
      BY <1>0, <1>1, <1>2, <1>7, <2>3, <2>6, PathAlong
    <3>2. Top.part # "start"
      BY <1>0, <1>2, <2>1, <2>6, <3>1 DEF HistoryInv, Unbegun
    <3>3. Top.task.kind # "module"
      <4>1. m \in 1 .. Len(q) - 1
        BY <1>7, <2>1
      <4>2. q[m].name = Top.task.name /\ Top.task \in Tasks
        BY <1>1, <1>2, <2>1, <2>6 DEF Along, Frames
      <4>3. Named(q[m].name) = Top.task
        BY <4>2, NamedTask
      <4> QED
        BY <3>1, <4>1, <4>3 DEF HistoryInv, Kinded
    <3>4. Top.part \in Sequences
      BY <1>2, <3>2, <3>3 DEF Progress, Shape, Frames, Parts
    <3>5. Earlier(q[m], Top) \/ q[m] = Place(Top)
      BY <1>1, <2>2, <2>6, <3>1 DEF Been
    <3>6. q[m] \in Places
      BY <1>7, <2>1
    <3>7. Earlier(q[m], f)
      BY <1>2, <3>4, <3>5, <3>6, OnwardEarlier DEF Progress
    <3> QED
      BY <1>1, <2>6, <3>7 DEF Been, Earlier
  <2> QED
    BY <1>1, <2>1, <2>5, <2>6
<1> QED
  BY <1>4, <1>5, <1>6, <1>7 DEF HistoryInv, Visited

(* A task begins where the run has not been.                               *)
LEMMA FreshFrame ==
  ASSUME TypeInv, HistoryInv, NEW f, NEW g, Deepens(f, g), NEW q \in Paths
  PROVE  \A m : m = Len(stack) + 1 => ~Along(q, m)'
<1>0. PICK n : n = Len(stack)
  OBVIOUS
<1>1. /\ n \in Nat \ {0} /\ Len(stack') = n + 1 /\ Top = stack[n] /\ stack'[n] = f /\ stack'[n + 1] = g
      /\ \A i \in 1 .. n - 1 : stack'[i] = stack[i]
  BY <1>0, DeepensFrames DEF TypeInv
<1>2. /\ f.task = Top.task /\ f.part = Top.part /\ f.item = Top.item /\ Top.part \in Sequences
      /\ f.pos \in Ahead(Top) /\ f.pos \in DOMAIN Children(f) /\ g.task = Children(f)[f.pos]
      /\ Children(f) = Children(Top) /\ Top \in Frames /\ Shape(Top)
  BY TopFacts DEF Deepens, Children
<1> SUFFICES ASSUME Along(q, n + 1)' PROVE FALSE
  BY <1>0
<1>3. q \in Seq(Places) \ {<<>>} /\ Len(q) \in Nat \ {0}
  BY PathsType
<1>4. n + 1 \in 1 .. Len(q) /\ (\A j \in 1 .. n : q[j] = Place(stack'[j])) /\ q[n + 1].name = g.task.name
  BY <1>1 DEF Along, Place
<1>5. n \in 1 .. n /\ n \in 1 .. Len(q) /\ n < Len(q) /\ \A j \in 1 .. n - 1 : j \in 1 .. n
  BY <1>1, <1>3, <1>4
<1>6. q[n] = Place(Top)
  BY <1>1, <1>2, <1>4, <1>5 DEF Place
<1>7. Along(q, n)
  <2>1. \A j \in 1 .. n - 1 : q[j] = Place(stack[j])
    BY <1>1, <1>4, <1>5
  <2>2. q[n].name = stack[n].task.name
    BY <1>1, <1>6 DEF Place
  <2> QED
    BY <1>0, <1>5, <2>1, <2>2 DEF Along
<1>8. Been(q, n)
  BY <1>1, <1>5, <1>7 DEF HistoryInv, Visited
<1>9. ~Earlier(q[n], Top)
  BY <1>2, <1>6 DEF Earlier, Place, Sequences, Onward, Frames
<1>10. PICK k \in DOMAIN Children(Top) : k <= Top.pos /\ q[n + 1].name = Children(Top)[k].name
  BY <1>1, <1>8, <1>9 DEF Been
<1>11. Children(Top) \in Seq(Tasks) /\ IsInjective(Children(Top))
  BY <1>2, ChildType, TaskLogicAssumption DEF PlaceAssumption, Children, Shape, Sequences, Frames
<1>12. Children(Top)[k] \in Tasks /\ Children(Top)[f.pos] \in Tasks
  BY <1>2, <1>10, <1>11
<1>13. Children(Top)[k] = Children(Top)[f.pos]
  BY <1>2, <1>4, <1>10, <1>12, TaskLogicAssumption DEF PlaceAssumption
<1>14. k = f.pos
  BY <1>2, <1>10, <1>11, <1>13 DEF IsInjective
<1>15. k > Top.pos /\ k \in Nat /\ Top.pos \in Nat
  BY <1>2, <1>10, <1>11, <1>14 DEF Ahead, Frames
<1> QED
  BY <1>10, <1>15

LEMMA DeepensHistory ==
  ASSUME TypeInv, TypeInv', HistoryInv, NEW f, NEW g, Deepens(f, g)
  PROVE  HistoryInv'
<1>0. PICK n : n = Len(stack)
  OBVIOUS
<1>1. /\ n \in Nat \ {0} /\ Len(stack') = n + 1 /\ Top = stack[n] /\ stack'[n] = f /\ stack'[n + 1] = g
      /\ \A i \in 1 .. n - 1 : stack'[i] = stack[i]
  BY <1>0, DeepensFrames DEF TypeInv
<1>2. /\ f.task = Top.task /\ f.part = Top.part /\ f.item = Top.item /\ Top.part \in Sequences /\ f.res = Top.res
      /\ f.pos \in Ahead(Top) /\ Children(f) = Children(Top) /\ Top \in Frames
      /\ g.part = "start" /\ Shape(g) /\ log' = log
  BY TopFacts DEF Deepens, Children
<1>3. Paths' = Paths /\ Events("item")' = Events("item")
  BY <1>2, EventsStay DEF Paths
<1>4. Unskipped'
  <2>1. g.res.skipped = FALSE
    BY <1>2 DEF Shape, Ok, Res
  <2>2. n \in 1 .. n /\ \A i \in 1 .. n + 1 : i = n + 1 \/ i = n \/ i \in 1 .. n - 1
    BY <1>1
  <2>3. \A i \in 1 .. n - 1 : i \in 1 .. n
    BY <1>1
  <2>4. \A i \in 1 .. n + 1 : stack'[i].part # "end" => ~stack'[i].res.skipped
    BY <1>0, <1>1, <1>2, <2>1, <2>2, <2>3 DEF HistoryInv, Unskipped
  <2> QED
    BY <1>1, <2>4 DEF Unskipped
<1>5. Unbegun'
  <2>1. \A q \in Paths : ~Along(q, n + 1)'
    BY <1>0, <1>1, FreshFrame
  <2>2. \A q \in Paths' : ~Along(q, Len(stack))'
    BY <1>1, <1>3, <2>1
  <2> QED
    BY <2>2 DEF Unbegun
<1>6. Kinded'
  BY <1>3 DEF HistoryInv, Kinded, Named, Of
<1>7. ASSUME NEW q, q \in Paths', NEW m \in Nat \ {0}, m < Len(q), Along(q, m)'
      PROVE  Been(q, m)'
  <2>1. m # n + 1
    <3>1. q \in Paths /\ Along(q, m)'
      BY <1>3, <1>7
    <3> QED
      BY <1>0, <1>1, <3>1, FreshFrame
  <2>2. Along(q, m)
    BY <1>0, <1>7, <2>1, DeepensAlong
  <2>3. Been(q, m) /\ m \in 1 .. n
    BY <1>0, <1>3, <1>7, <2>2 DEF HistoryInv, Visited, Along
  <2>4. CASE m \in 1 .. n - 1
    <3>1. stack'[m] = stack[m]
      BY <1>1, <2>4
    <3> QED
      BY <2>3, <3>1 DEF Been, Earlier
  <2>5. CASE m = n
    <3>1. Place(f) = Place(Top)
      BY <1>2 DEF Place
    <3>2. Top.pos < f.pos /\ Top.pos \in Nat /\ f.pos \in Nat
      BY <1>2 DEF Ahead, Frames, Deepens
    <3>3. Been(q, n)
      BY <2>3, <2>5
    <3>4. CASE Earlier(q[n], Top)
      <4>1. Earlier(q[n], f)
        BY <1>2, <3>4 DEF Earlier
      <4> QED
        BY <1>1, <2>5, <4>1 DEF Been, Earlier
    <3>5. CASE ~Earlier(q[n], Top)
      <4>1. q[n] = Place(Top)
        BY <1>1, <3>3, <3>5 DEF Been
      <4>2. PICK k \in DOMAIN Children(Top) : k <= Top.pos /\ q[n + 1].name = Children(Top)[k].name
        BY <1>1, <3>3, <3>5 DEF Been
      <4>3. k \in Nat
        BY <1>2, <4>2, TopFacts, ChildType DEF Deepens
      <4>4. k <= f.pos
        BY <3>2, <4>2, <4>3
      <4>5. q[n] = Place(f) /\ k \in DOMAIN Children(f) /\ q[n + 1].name = Children(f)[k].name
        BY <1>2, <3>1, <4>1, <4>2
      <4> QED
        BY <1>1, <2>5, <4>4, <4>5 DEF Been, Place, Children
    <3> QED
      BY <3>4, <3>5
  <2> QED
    BY <1>1, <2>3, <2>4, <2>5
<1> QED
  BY <1>4, <1>5, <1>6, <1>7 DEF HistoryInv, Visited

(* What a frame has become was there before, or is further on.             *)
LEMMA PopsBeen ==
  ASSUME TypeInv, NEW g, Pops(g), NEW q, q \in Seq(Places), NEW m \in Nat, m = Len(stack) - 1, Been(q, m),
         m \in 1 .. Len(q)
  PROVE  Been(q, m)'
<1>1. /\ stack'[m] = g /\ Parent = stack[m] /\ g.task = Parent.task /\ Parent \in Frames
      /\ Parent.part \in Sequences /\ Hears(Parent, Top.task, Top.res, g)
  BY PopsFacts
<1>2. g \in Frames /\ g.item = Parent.item /\ q[m] \in Places
  BY <1>1 DEF Hears
<1>3. CASE g.part = "end"
  BY <1>1, <1>3 DEF Been, Earlier
<1>4. CASE g.part = Parent.part
  <2>1. Place(g) = Place(Parent) /\ Children(g) = Children(Parent)
    BY <1>1, <1>2, <1>4 DEF Place, Children
  <2>2. g.pos >= Parent.pos /\ g.pos \in Nat /\ Parent.pos \in Nat
    BY <1>1, <1>4 DEF Hears, Frames
  <2>3. CASE Earlier(q[m], Parent)
    <3>1. Earlier(q[m], g)
      BY <1>2, <1>4, <2>3 DEF Earlier
    <3> QED
      BY <1>1, <3>1 DEF Been, Earlier
  <2>4. CASE ~Earlier(q[m], Parent)
    <3>1. q[m] = Place(Parent)
      BY <1>1, <2>4 DEF Been
    <3>2. PICK k \in DOMAIN Children(Parent) : k <= Parent.pos /\ q[m + 1].name = Children(Parent)[k].name
      BY <1>1, <2>4 DEF Been
    <3>3. k \in Nat
      <4>1. Shape(Parent)
        BY <1>1, ParentFacts DEF Pops
      <4> QED
        BY <1>1, <3>2, <4>1, ChildType
    <3>4. k <= g.pos /\ k \in DOMAIN Children(g) /\ q[m + 1].name = Children(g)[k].name /\ q[m] = Place(g)
      BY <2>1, <2>2, <3>1, <3>2, <3>3
    <3> QED
      BY <1>1, <3>4 DEF Been, Place, Children
  <2> QED
    BY <2>3, <2>4
<1>5. CASE g.part # "end" /\ g.part # Parent.part
  <2>1. <<Parent.part, g.part>> \in Onward
    BY <1>1, <1>2, <1>5 DEF Hears, Onward, Sequences, Frames, Parts
  <2>2. Earlier(q[m], Parent) \/ q[m] = Place(Parent)
    BY <1>1 DEF Been
  <2>3. Earlier(q[m], g)
    BY <1>1, <1>2, <2>1, <2>2, OnwardEarlier
  <2> QED
    BY <1>1, <2>3 DEF Been, Earlier
<1> QED
  BY <1>3, <1>4, <1>5

LEMMA PopsHistory ==
  ASSUME TypeInv, TypeInv', HistoryInv, NEW g, Pops(g), Adds(Parent, Top.res, g)
  PROVE  HistoryInv'
<1>0. PICK n : n = Len(stack)
  OBVIOUS
<1>1. /\ n \in Nat /\ n >= 2 /\ n - 1 \in Nat \ {0} /\ Len(stack') = n - 1 /\ Parent = stack[n - 1]
      /\ stack'[n - 1] = g /\ \A i \in 1 .. n - 2 : stack'[i] = stack[i]
  BY <1>0, PopsFacts
<1>2. /\ stack # <<>> /\ Parent.part \in Sequences /\ Hears(Parent, Top.task, Top.res, g)
  BY PopsFacts
<1>3. Paths' = Paths \cup {Path} /\ Events("item")' = Events("item")
  BY PopsPaths
<1>4. \A i \in 1 .. n - 1 : i = n - 1 \/ i \in 1 .. n - 2
  BY <1>1
<1>5. Unskipped'
  <2>1. ~Parent.res.skipped
    <3>1. n - 1 \in 1 .. n
      BY <1>1
    <3> QED
      BY <1>0, <1>1, <1>2, <3>1 DEF HistoryInv, Unskipped, Sequences
  <2>2. \A i \in 1 .. n - 2 : i \in 1 .. n
    BY <1>1
  <2>3. \A i \in 1 .. n - 1 : stack'[i].part # "end" => ~stack'[i].res.skipped
    BY <1>0, <1>1, <1>4, <2>1, <2>2 DEF HistoryInv, Unskipped, Adds
  <2> QED
    BY <1>1, <2>3 DEF Unskipped
<1>6. Unbegun'
  <2>1. Top' = g
    BY <1>1 DEF Top, Last
  <2>2. g.part # "start"
    BY <1>2 DEF Hears
  <2> QED
    BY <2>1, <2>2 DEF Unbegun
<1>7. Kinded'
  BY <1>2, <1>3, PathKinded DEF HistoryInv, Kinded, Named, Of
<1>8. ASSUME NEW q, q \in Paths', NEW m \in Nat \ {0}, m < Len(q), Along(q, m)'
      PROVE  Been(q, m)'
  <2>1. Along(q, m) /\ m # n
    BY <1>0, <1>8, PopsAlong
  <2>2. m \in 1 .. n /\ q \in Seq(Places) /\ m \in 1 .. Len(q)
    BY <1>0, <1>2, <1>3, <1>8, <2>1, PathsType, PathAlong DEF Along
  <2>3. m < n /\ m \in 1 .. n - 1
    BY <1>1, <2>1, <2>2
  <2>4. Been(q, m)
    BY <1>0, <1>2, <1>3, <1>8, <2>1, <2>3, PathBeen DEF HistoryInv, Visited
  <2>5. CASE m \in 1 .. n - 2
    <3>1. stack'[m] = stack[m]
      BY <1>1, <2>5
    <3> QED
      BY <2>4, <3>1 DEF Been, Earlier
  <2>6. CASE m = n - 1
    BY <1>0, <2>2, <2>4, <2>6, PopsBeen
  <2> QED
    BY <1>4, <2>3, <2>5, <2>6
<1> QED
  BY <1>5, <1>6, <1>7, <1>8 DEF HistoryInv, Visited

LEMMA ClosesHistory ==
  ASSUME TypeInv, TypeInv', HistoryInv, Closes
  PROVE  HistoryInv'
<1>1. stack # <<>> /\ stack' = <<>> /\ Len(stack') = 0
  BY DEF Closes
<1>2. Paths' = Paths \cup {Path} /\ Events("item")' = Events("item")
  BY PopsPaths
<1>3. Kinded'
  BY <1>1, <1>2, PathKinded DEF HistoryInv, Kinded, Named, Of
<1>4. \A q, m : ~Along(q, m)'
  BY <1>1 DEF Along
<1> QED
  BY <1>1, <1>3, <1>4 DEF HistoryInv, Unskipped, Visited, Unbegun

LEMMA InitHistory == Init => HistoryInv
<1> SUFFICES ASSUME Init PROVE HistoryInv
  OBVIOUS
<1>1. TypeInv /\ log = <<>> /\ Len(stack) = 1 /\ stack[1].part = "start"
  BY InitTyped
<1>2. Paths = {} /\ \A w : Events(w) = {}
  BY <1>1 DEF Paths, Events
<1>3. Unskipped
  BY <1>1 DEF Unskipped, TypeInv, Shape, Ok, Res
<1> QED
  BY <1>2, <1>3 DEF HistoryInv, Visited, Unbegun, Kinded

LEMMA HistoryStep ==
  ASSUME TypeInv, HistoryInv, [Next]_state
  PROVE  HistoryInv'
<1>1. TypeInv'
  BY TypeStep
<1>2. CASE UNCHANGED state
  BY <1>2 DEF state, HistoryInv, Unskipped, Visited, Unbegun, Kinded, Paths, Along, Been, Earlier, Events, Top
<1>3. CASE Next
  <2>1. Unskipped
    BY DEF HistoryInv
  <2> QED
    BY <1>1, <1>3, <2>1, EveryStepHeeds, TurnHistory, DeepensHistory, PopsHistory, ClosesHistory
<1> QED
  BY <1>2, <1>3

-----------------------------------------------------------------------------
(* What made a task a changed one: a call of its own, or a task below it.  *)
(* A task that ended is on the stack no more, so what made it is final.    *)
Evidence == Events("item") \cup Events("leave")

Stirs(e, p) ==
  /\ e.res.changed /\ Shares(e.path, p, Len(p))
  /\ \/ e.what = "item" /\ Len(e.path) = Len(p)
     \/ e.what = "leave" /\ Len(e.path) > Len(p)

Stirred(p) == \E e \in Evidence : Stirs(e, p)

Decided(t, stirred) ==
  IF t.kind = "module" /\ t.changed_when # None THEN t.changed_when = "yes" ELSE stirred

Finished == \A l \in Events("leave") : ~Along(l.path, Len(l.path))

LEMMA EvidenceType ==
  ASSUME TypeInv, NEW e \in Evidence
  PROVE  /\ e \in Entries /\ e.res \in Results /\ e.path \in Paths
         /\ e.path \in Seq(Places) \ {<<>>} /\ Len(e.path) \in Nat \ {0}
BY EventType, PathsType DEF Evidence

(* The innermost task and a path.                                          *)
LEMMA SharesAlong ==
  ASSUME TypeInv, stack # <<>>, NEW q, NEW n \in 1 .. Len(stack), n \in 1 .. Len(q)
  PROVE  (Shares(q, Path, n) <=> Along(q, n)) /\ (Shares(Path, q, n) <=> Along(q, n))
<1>1. Len(stack) \in Nat /\ \A j \in 1 .. n - 1 : j \in 1 .. Len(stack)
  BY TopFacts
<1>2. \A j \in 1 .. Len(stack) : Path[j] = Place(stack[j]) /\ Path[j].name = stack[j].task.name
  BY PathAlong
<1> QED
  BY <1>1, <1>2 DEF Shares, Along

LEMMA AlongDown ==
  ASSUME TypeInv, NEW q \in Seq(Places), NEW n, Along(q, n), NEW m \in 1 .. n
  PROVE  Along(q, m)
<1>1. Len(stack) \in Nat /\ Len(q) \in Nat /\ n \in 1 .. Len(stack) /\ n \in 1 .. Len(q)
  BY DEF TypeInv, Along
<1>2. m \in 1 .. Len(stack) /\ m \in 1 .. Len(q) /\ (m = n \/ m \in 1 .. n - 1)
      /\ \A j \in 1 .. m - 1 : j \in 1 .. n - 1
  BY <1>1
<1>3. q[m].name = stack[m].task.name
  <2>1. CASE m = n
    BY <2>1 DEF Along
  <2>2. CASE m \in 1 .. n - 1
    <3>1. q[m] = Place(stack[m])
      BY <2>2 DEF Along
    <3> QED
      BY <3>1 DEF Place
  <2> QED
    BY <1>2, <2>1, <2>2
<1> QED
  BY <1>2, <1>3 DEF Along

(* A step adds at most one entry, at the innermost task.                   *)
LEMMA EvidenceGrows ==
  ASSUME TypeInv, TypeInv', Next, HistoryInv, NEW e, (e \in Evidence)', e \notin Evidence
  PROVE  /\ stack # <<>> /\ e.path = Path /\ Len(e.path) = Len(stack)
         /\ e \in Entries
<1>1. Unskipped
  BY DEF HistoryInv
<1>2. ASSUME stack # <<>>, NEW r \in Results, NEW what \in {"enter", "item", "leave"}, log' = Noted(what, r)
      PROVE  stack # <<>> /\ e.path = Path /\ e \in Entries
  <2>1. e = [what |-> what, path |-> Path, res |-> r]
    BY <1>2, EventsGrow DEF Evidence
  <2> QED
    BY <1>2, <2>1, PathAlong DEF Entries
<1>3. ~(log' = log)
  BY EventsStay DEF Evidence
<1>4. stack # <<>> /\ e.path = Path /\ e \in Entries
  <2>1. ASSUME NEW f, Turn(f) PROVE stack # <<>> /\ e.path = Path /\ e \in Entries
    BY <1>2, <1>3, <2>1, ResultTypes DEF Turn, Answers
  <2>2. ASSUME NEW f, NEW g, Deepens(f, g) PROVE FALSE
    BY <1>3, <2>2 DEF Deepens
  <2>3. ASSUME Closes \/ \E g : Pops(g) PROVE stack # <<>> /\ e.path = Path /\ e \in Entries
    <3>1. stack # <<>> /\ log' = Noted("leave", Top.res)
      BY <2>3 DEF Closes, Pops
    <3> QED
      BY <1>2, <3>1, TopFacts
  <2> QED
    BY <2>1, <2>2, <2>3, EveryStep
<1> QED
  BY <1>4, PathAlong

LEMMA EvidenceStays ==
  ASSUME TypeInv, TypeInv', Next
  PROVE  Evidence \subseteq Evidence'
<1>1. ASSUME stack # <<>>, NEW r \in Results, NEW what \in {"enter", "item", "leave"}, log' = Noted(what, r)
      PROVE  Evidence \subseteq Evidence'
  <2>1. \A e : \A w \in {"item", "leave"} : e \in Events(w) => (e \in Events(w))'
    BY <1>1, EventsGrow
  <2> QED
    BY <2>1 DEF Evidence
<1>2. CASE log' = log
  BY <1>2, EventsStay DEF Evidence
<1>3. ASSUME NEW f, Turn(f) PROVE Evidence \subseteq Evidence'
  BY <1>1, <1>2, <1>3, ResultTypes DEF Turn, Answers
<1>4. ASSUME NEW f, NEW g, Deepens(f, g) PROVE Evidence \subseteq Evidence'
  BY <1>2, <1>4 DEF Deepens
<1>5. ASSUME Closes \/ \E g : Pops(g) PROVE Evidence \subseteq Evidence'
  <2>1. stack # <<>> /\ log' = Noted("leave", Top.res)
    BY <1>5 DEF Closes, Pops
  <2> QED
    BY <1>1, <2>1, TopFacts
<1> QED
  BY <1>3, <1>4, <1>5, EveryStep

LEMMA FinishedStep ==
  ASSUME TypeInv, HistoryInv, Finished, [Next]_state
  PROVE  Finished'
<1>1. TypeInv'
  BY TypeStep
<1>2. CASE UNCHANGED state
  BY <1>2 DEF state, Finished, Along, Events
<1>3. ASSUME NEW f, Turn(f) PROVE Finished'
  BY <1>1, <1>3, TurnAlong, StepEvents DEF Finished
<1>4. ASSUME NEW f, NEW g, Deepens(f, g), NEW l, (l \in Events("leave"))' PROVE ~Along(l.path, Len(l.path))'
  <2>1. l \in Events("leave")
    BY <1>1, <1>4, StepEvents
  <2>2. Len(l.path) # Len(stack) + 1 => (Along(l.path, Len(l.path))' <=> Along(l.path, Len(l.path)))
    BY <1>4, DeepensAlong
  <2>3. Len(l.path) = Len(stack) + 1 => ~Along(l.path, Len(l.path))'
    BY <1>4, <2>1, PathsType, FreshFrame
  <2> QED
    BY <2>1, <2>2, <2>3 DEF Finished
<1>5. ASSUME NEW g, Pops(g), NEW l, (l \in Events("leave"))' PROVE ~Along(l.path, Len(l.path))'
  <2>1. /\ Len(l.path) # Len(stack) => (Along(l.path, Len(l.path))' <=> Along(l.path, Len(l.path)))
        /\ Along(l.path, Len(l.path))' => Len(l.path) # Len(stack)
    BY <1>5, PopsAlong
  <2>2. l \in Events("leave") \/ l = [what |-> "leave", path |-> Path, res |-> Top.res]
    BY <1>1, <1>5, StepEvents
  <2>3. CASE l \in Events("leave")
    BY <2>1, <2>3 DEF Finished
  <2>4. CASE l = [what |-> "leave", path |-> Path, res |-> Top.res]
    <3>1. Len(l.path) = Len(stack)
      BY <1>5, <2>4, PathAlong DEF Pops
    <3> QED
      BY <2>1, <3>1
  <2> QED
    BY <2>2, <2>3, <2>4
<1>6. CASE Closes
  <2>1. stack' = <<>>
    BY <1>6 DEF Closes
  <2>2. \A q, m : ~Along(q, m)'
    BY <2>1 DEF Along
  <2> QED
    BY <2>2 DEF Finished
<1> QED
  BY <1>2, <1>3, <1>4, <1>5, <1>6, EveryStep DEF Finished

-----------------------------------------------------------------------------
(* What the frames have added up.  A change below a task is in the result  *)
(* of a frame between them; a change in the result of a task that has      *)
(* tasks comes from below it; what a module task has added up of its calls *)
(* is what they changed.                                                   *)
Call(e) == Len(e.path) = Len(stack) /\ Along(e.path, Len(stack)) /\ e.res.changed

Raised ==
  \A e \in Events("leave"), n \in Nat \ {0} :
    e.res.changed /\ n < Len(e.path) /\ Along(e.path, n) =>
      \E k \in n .. Len(e.path) - 1 : Along(e.path, k) /\ (stack[k].res.changed \/ stack[k].res.lost)

Caused ==
  \A n \in 1 .. Len(stack) :
    stack[n].task.kind # "module" /\ stack[n].res.changed =>
      \E e \in Events("leave") : n < Len(e.path) /\ Along(e.path, n) /\ e.res.changed

Counted ==
  stack # <<>> /\ Top.part \in Calling =>
    /\ Top.res.changed => \E e \in Events("item") : Call(e)
    /\ (\E e \in Events("item") : Call(e)) => Top.res.changed \/ Top.res.lost

SumsInv == Raised /\ Caused /\ Counted

LEMMA TurnSums ==
  ASSUME TypeInv, TypeInv', HistoryInv, SumsInv, NEW f, Turn(f), Heeds(f)
  PROVE  SumsInv'
<1>0. PICK n : n = Len(stack)
  OBVIOUS
<1>1. /\ n \in Nat \ {0} /\ Len(stack') = n /\ stack'[n] = f /\ Top = stack[n]
      /\ \A i \in 1 .. n - 1 : stack'[i] = stack[i]
  BY <1>0, TurnFrames DEF TypeInv
<1>2. /\ stack # <<>> /\ stack' # <<>> /\ f.task = Top.task /\ Sums(f) /\ Answers(f) /\ Top' = f
      /\ f.task.kind # "module" => f.res.changed = Top.res.changed
      /\ Top.res.lost => f.res.lost
  BY <1>1 DEF Turn, Heeds, Answers, Top, Last
<1>3. Events("leave")' = Events("leave")
  BY StepEvents
<1>4. \A m \in 1 .. n : m = n \/ m \in 1 .. n - 1
  BY <1>1
<1>5. Raised'
  <2> SUFFICES ASSUME NEW e, (e \in Events("leave"))', NEW m \in Nat \ {0},
                      e.res.changed, m < Len(e.path), Along(e.path, m)'
               PROVE  \E k \in m .. Len(e.path) - 1 :
                        Along(e.path, k)' /\ (stack'[k].res.changed \/ stack'[k].res.lost)
    BY DEF Raised
  <2>1. e \in Events("leave") /\ Along(e.path, m)
    BY <1>3, TurnAlong
  <2>2. PICK k \in m .. Len(e.path) - 1 : Along(e.path, k) /\ (stack[k].res.changed \/ stack[k].res.lost)
    BY <2>1 DEF SumsInv, Raised
  <2>3. Along(e.path, k)' /\ k \in 1 .. n
    BY <1>0, <2>2, TurnAlong DEF Along
  <2>4. CASE k = n
    <3>1. Top.task.kind # "module"
      <4>1. k \in 1 .. Len(e.path) - 1
        BY <2>1, <2>2, EventType
      <4>2. Named(e.path[k].name).kind # "module"
        BY <2>1, <4>1, PathsType DEF HistoryInv, Kinded
      <4>3. e.path[k].name = Top.task.name /\ Top.task \in Tasks
        BY <1>1, <1>2, <2>2, <2>4, TopFacts DEF Along
      <4> QED
        BY <4>2, <4>3, NamedTask
    <3>2. f.res.changed \/ f.res.lost
      BY <1>1, <1>2, <2>2, <2>4, <3>1
    <3> QED
      BY <1>1, <2>3, <2>4, <3>2
  <2>5. CASE k \in 1 .. n - 1
    <3>1. stack'[k] = stack[k]
      BY <1>1, <2>5
    <3> QED
      BY <2>2, <2>3, <3>1
  <2> QED
    BY <1>4, <2>3, <2>4, <2>5
<1>6. Caused'
  <2> SUFFICES ASSUME NEW m \in 1 .. n, stack'[m].task.kind # "module", stack'[m].res.changed
               PROVE  \E e \in Events("leave") : m < Len(e.path) /\ Along(e.path, m)' /\ e.res.changed
    BY <1>1, <1>3 DEF Caused
  <2>1. stack[m].task.kind # "module" /\ stack[m].res.changed
    BY <1>1, <1>2, <1>4
  <2>2. PICK e \in Events("leave") : m < Len(e.path) /\ Along(e.path, m) /\ e.res.changed
    BY <1>0, <2>1 DEF SumsInv, Caused
  <2> QED
    BY <2>2, TurnAlong
<1>7. Counted'
  <2> DEFINE Calls(e) == Len(e.path) = n /\ Along(e.path, n) /\ e.res.changed
  <2>1. \A e : (Call(e) <=> Calls(e)) /\ (Call(e)' <=> Calls(e))
    BY <1>0, <1>1, TurnAlong DEF Call
  <2> SUFFICES ASSUME f.part \in Calling
               PROVE  /\ f.res.changed => \E e \in Events("item")' : Calls(e)
                      /\ (\E e \in Events("item")' : Calls(e)) => f.res.changed \/ f.res.lost
    BY <1>2, <2>1 DEF Counted
  <2>2. Top.part \in Calling =>
           /\ Top.res.changed => \E e \in Events("item") : Calls(e)
           /\ (\E e \in Events("item") : Calls(e)) => Top.res.changed \/ Top.res.lost
    BY <1>2, <2>1 DEF SumsInv, Counted
  <2>3. ASSUME log' = log \/ log' = Noted("enter", Ok),
               \/ Top.part = "start" /\ ~f.res.changed
               \/ Top.part \in Calling /\ f.res = Top.res
        PROVE  /\ f.res.changed => \E e \in Events("item")' : Calls(e)
               /\ (\E e \in Events("item")' : Calls(e)) => f.res.changed \/ f.res.lost
    <3>1. \A e : (e \in Events("item"))' <=> e \in Events("item")
      BY <1>2, <2>3, EventsStay, EventsGrow, ResultTypes
    <3>4. CASE Top.part = "start" /\ ~f.res.changed
      <4>1. \A e \in Events("item") : ~Calls(e)
        BY <1>0, <1>2, <3>4, PathsType DEF HistoryInv, Unbegun
      <4> QED
        BY <3>1, <3>4, <4>1
    <3>5. CASE Top.part \in Calling /\ f.res = Top.res
      BY <2>2, <3>1, <3>5
    <3> QED
      BY <2>3, <3>4, <3>5
  <2>4. ASSUME Top.part \in {"item", "attempt"}, NEW r \in Results, log' = Noted("item", r),
               f.res.changed => Top.res.changed \/ r.changed,
               Top.res.changed \/ r.changed => f.res.changed \/ f.res.lost
        PROVE  /\ f.res.changed => \E e \in Events("item")' : Calls(e)
               /\ (\E e \in Events("item")' : Calls(e)) => f.res.changed \/ f.res.lost
    <3> DEFINE x == [what |-> "item", path |-> Path, res |-> r]
    <3>1. \A e : (e \in Events("item"))' <=> e \in Events("item") \/ e = x
      BY <1>2, <2>4, EventsGrow
    <3>2. Calls(x) <=> r.changed
      BY <1>0, <1>2, PathAlong
    <3>3. Top.part \in Calling
      BY <2>4 DEF Calling
    <3> HIDE DEF x, Calls
    <3> QED
      BY <1>2, <2>2, <2>4, <3>1, <3>2, <3>3
  <2> HIDE DEF Calls
  <2> QED
    BY <1>2, <2>3, <2>4 DEF Sums
<1> QED
  BY <1>5, <1>6, <1>7 DEF SumsInv

LEMMA DeepensSums ==
  ASSUME TypeInv, TypeInv', HistoryInv, SumsInv, NEW f, NEW g, Deepens(f, g)
  PROVE  SumsInv'
<1>0. PICK n : n = Len(stack)
  OBVIOUS
<1>1. /\ n \in Nat \ {0} /\ Len(stack') = n + 1 /\ Top = stack[n] /\ stack'[n] = f /\ stack'[n + 1] = g
      /\ \A i \in 1 .. n - 1 : stack'[i] = stack[i]
  BY <1>0, DeepensFrames DEF TypeInv
<1>2. f.res = Top.res /\ f.task = Top.task /\ g.part = "start" /\ Shape(g) /\ stack' # <<>> /\ Top' = g
  BY <1>1 DEF Deepens, Top, Last
<1>3. Events("leave")' = Events("leave")
  BY StepEvents
<1>4. ASSUME NEW m \in 1 .. n PROVE stack'[m].res = stack[m].res /\ stack'[m].task = stack[m].task
  <2>1. m = n \/ m \in 1 .. n - 1
    BY <1>1
  <2> QED
    BY <1>1, <1>2, <2>1
<1>5. ASSUME NEW q, NEW m \in 1 .. n PROVE Along(q, m)' <=> Along(q, m)
  <2>1. m # n + 1
    BY <1>1
  <2> QED
    BY <1>0, <2>1, DeepensAlong
<1>6. Raised'
  <2> SUFFICES ASSUME NEW e, (e \in Events("leave"))', NEW m \in Nat \ {0},
                      e.res.changed, m < Len(e.path), Along(e.path, m)'
               PROVE  \E k \in m .. Len(e.path) - 1 :
                        Along(e.path, k)' /\ (stack'[k].res.changed \/ stack'[k].res.lost)
    BY DEF Raised
  <2>1. e \in Events("leave") /\ e.path \in Paths
    BY <1>3, PathsType
  <2>2. Along(e.path, m)
    <3>1. m # n + 1
      BY <1>0, <2>1, FreshFrame
    <3> QED
      BY <1>0, <3>1, DeepensAlong
  <2>3. PICK k \in m .. Len(e.path) - 1 : Along(e.path, k) /\ (stack[k].res.changed \/ stack[k].res.lost)
    BY <2>1, <2>2 DEF SumsInv, Raised
  <2>4. k \in 1 .. n
    BY <1>0, <2>3 DEF Along
  <2> QED
    BY <1>4, <1>5, <2>3, <2>4
<1>7. Caused'
  <2> SUFFICES ASSUME NEW m \in 1 .. n + 1, stack'[m].task.kind # "module", stack'[m].res.changed
               PROVE  \E e \in Events("leave") : m < Len(e.path) /\ Along(e.path, m)' /\ e.res.changed
    BY <1>1, <1>3 DEF Caused
  <2>1. m # n + 1
    <3>1. ~g.res.changed
      BY <1>2, ResultTypes DEF Shape
    <3> QED
      BY <1>1, <3>1
  <2>2. m \in 1 .. n
    BY <1>1, <2>1
  <2>3. PICK e \in Events("leave") : m < Len(e.path) /\ Along(e.path, m) /\ e.res.changed
    BY <1>0, <1>4, <2>2 DEF SumsInv, Caused
  <2> QED
    BY <1>5, <2>2, <2>3
<1>8. Counted'
  BY <1>2 DEF Counted, Calling
<1> QED
  BY <1>6, <1>7, <1>8 DEF SumsInv

LEMMA PopsSums ==
  ASSUME TypeInv, TypeInv', SumsInv, NEW g, Pops(g), Adds(Parent, Top.res, g)
  PROVE  SumsInv'
<1>0. PICK n : n = Len(stack)
  OBVIOUS
<1>1. /\ n \in Nat /\ n >= 2 /\ n - 1 \in Nat \ {0} /\ Len(stack') = n - 1 /\ Parent = stack[n - 1]
      /\ Top = stack[n] /\ stack'[n - 1] = g /\ \A i \in 1 .. n - 2 : stack'[i] = stack[i]
      /\ g.task = Parent.task /\ stack # <<>> /\ Hears(Parent, Top.task, Top.res, g)
  BY <1>0, PopsFacts
<1>2. \A i \in 1 .. n - 1 : i = n - 1 \/ i \in 1 .. n - 2
  BY <1>1
<1>x. PICK x : x = [what |-> "leave", path |-> Path, res |-> Top.res]
  OBVIOUS
<1>3. \A e : (e \in Events("leave"))' <=> e \in Events("leave") \/ e = x
  BY <1>x, StepEvents
<1>4. x.path = Path /\ x.res = Top.res
  BY <1>x
<1>5. \A q, m : m # n => (Along(q, m)' <=> Along(q, m))
  BY <1>0, PopsAlong
<1>6. \A q, m : Along(q, m)' => m # n
  BY <1>0, PopsAlong
<1>7. Path \in Seq(Places) /\ Len(Path) = n /\ \A m \in 1 .. n : Along(Path, m)
  BY <1>0, <1>1, PathAlong, AlongDown
<1>8. \A e \in Events("leave") : e.path \in Seq(Places) /\ Len(e.path) \in Nat
  BY EventType
<1>9. Raised'
  <2> SUFFICES ASSUME NEW e, (e \in Events("leave"))', NEW m \in Nat \ {0},
                      e.res.changed, m < Len(e.path), Along(e.path, m)'
               PROVE  \E k \in m .. Len(e.path) - 1 :
                        Along(e.path, k)' /\ (stack'[k].res.changed \/ stack'[k].res.lost)
    BY DEF Raised
  <2>1. Along(e.path, m) /\ m # n
    BY <1>5, <1>6
  <2>2. m \in 1 .. n - 1
    <3>1. m \in 1 .. n
      BY <1>0, <2>1 DEF Along
    <3> QED
      BY <1>1, <2>1, <3>1
  <2>3. CASE e = x
    <3>1. Along(e.path, n - 1)'
      <4>1. n - 1 \in 1 .. n /\ n - 1 # n
        BY <1>1
      <4> QED
        BY <1>4, <1>5, <1>7, <2>3, <4>1
    <3>2. g.res.changed \/ g.res.lost
      BY <1>4, <2>3 DEF Adds
    <3>3. n - 1 \in m .. Len(e.path) - 1
      BY <1>1, <1>4, <1>7, <2>2, <2>3
    <3> QED
      BY <1>1, <3>1, <3>2, <3>3
  <2>4. CASE e \in Events("leave")
    <3>1. PICK k \in m .. Len(e.path) - 1 : Along(e.path, k) /\ (stack[k].res.changed \/ stack[k].res.lost)
      BY <2>1, <2>4 DEF SumsInv, Raised
    <3>2. k \in 1 .. n
      BY <1>0, <3>1 DEF Along
    <3>3. CASE k = n
      <4>1. n - 1 \in 1 .. n /\ n - 1 # n /\ n - 1 \in m .. Len(e.path) - 1
        BY <1>1, <1>8, <2>2, <2>4, <3>1, <3>3
      <4>2. Along(e.path, n - 1)'
        BY <1>5, <1>8, <2>4, <3>1, <3>3, <4>1, AlongDown
      <4>3. g.res.changed \/ g.res.lost
        BY <1>1, <3>1, <3>3 DEF Adds, Hears
      <4> QED
        BY <1>1, <4>1, <4>2, <4>3
    <3>4. CASE k = n - 1
      <4>1. n - 1 # n
        BY <1>1
      <4>2. g.res.changed \/ g.res.lost
        BY <1>1, <3>1, <3>4 DEF Adds, Hears
      <4> QED
        BY <1>1, <1>5, <3>1, <3>4, <4>1, <4>2
    <3>5. CASE k \in 1 .. n - 2
      <4>1. k # n /\ stack'[k] = stack[k]
        BY <1>1, <3>5
      <4> QED
        BY <1>5, <3>1, <4>1
    <3> QED
      BY <1>1, <3>2, <3>3, <3>4, <3>5
  <2> QED
    BY <1>3, <2>3, <2>4
<1>10. Caused'
  <2> SUFFICES ASSUME NEW m \in 1 .. n - 1, stack'[m].task.kind # "module", stack'[m].res.changed
               PROVE  \E e : (e \in Events("leave"))' /\ m < Len(e.path) /\ Along(e.path, m)' /\ e.res.changed
    BY <1>1 DEF Caused
  <2>1. m # n /\ m \in 1 .. n /\ m < n
    BY <1>1
  <2>2. CASE stack[m].task.kind # "module" /\ stack[m].res.changed
    <3>1. PICK e \in Events("leave") : m < Len(e.path) /\ Along(e.path, m) /\ e.res.changed
      BY <1>0, <2>1, <2>2 DEF SumsInv, Caused
    <3> QED
      BY <1>3, <1>5, <2>1, <3>1
  <2>3. CASE ~(stack[m].task.kind # "module" /\ stack[m].res.changed)
    <3>1. m = n - 1
      BY <1>1, <1>2, <2>3
    <3>2. Top.res.changed
      BY <1>1, <2>3, <3>1 DEF Adds
    <3>3. (x \in Events("leave"))' /\ m < Len(x.path) /\ Along(x.path, m)' /\ x.res.changed
      <4>1. Along(x.path, m) /\ Len(x.path) = n
        BY <1>4, <1>7, <2>1
      <4> QED
        BY <1>3, <1>4, <1>5, <2>1, <3>2, <4>1
    <3> QED
      BY <3>3
  <2> QED
    BY <2>2, <2>3
<1>11. Counted'
  <2>1. Top' = g
    BY <1>1 DEF Top, Last
  <2>2. g.part \notin Calling
    BY <1>1 DEF Hears, Calling
  <2> QED
    BY <2>1, <2>2 DEF Counted
<1> QED
  BY <1>9, <1>10, <1>11 DEF SumsInv

LEMMA SumsStep ==
  ASSUME TypeInv, HistoryInv, SumsInv, [Next]_state
  PROVE  SumsInv'
<1>1. TypeInv'
  BY TypeStep
<1>2. CASE UNCHANGED state
  <2>1. stack' = stack /\ Top' = Top /\ \A w : Events(w)' = Events(w)
    BY <1>2 DEF state, Events, Top
  <2>2. \A q, m : Along(q, m)' <=> Along(q, m)
    BY <2>1 DEF Along
  <2>3. Raised'
    BY <2>1, <2>2 DEF SumsInv, Raised
  <2>4. Caused'
    BY <2>1, <2>2 DEF SumsInv, Caused
  <2>5. Counted'
    BY <2>1, <2>2 DEF SumsInv, Counted, Call
  <2> QED
    BY <2>3, <2>4, <2>5 DEF SumsInv
<1>3. CASE Closes
  <2>1. stack' = <<>> /\ Len(stack') = 0
    BY <1>3 DEF Closes
  <2>2. \A q, m : ~Along(q, m)'
    BY <2>1 DEF Along
  <2> QED
    BY <2>1, <2>2 DEF SumsInv, Raised, Caused, Counted
<1>4. CASE Next
  <2>1. Unskipped
    BY DEF HistoryInv
  <2> QED
    BY <1>1, <1>3, <1>4, <2>1, EveryStepHeeds, TurnSums, DeepensSums, PopsSums
<1> QED
  BY <1>2, <1>4

LEMMA InitSums == Init => SumsInv /\ Finished
<1> SUFFICES ASSUME Init PROVE SumsInv /\ Finished
  OBVIOUS
<1>1. TypeInv /\ log = <<>> /\ Len(stack) = 1 /\ stack[1].part = "start" /\ stack # <<>>
  BY InitTyped
<1>2. \A w : Events(w) = {}
  BY <1>1 DEF Events
<1>3. stack[1].res = Ok /\ Top = stack[1]
  BY <1>1 DEF TypeInv, Shape, Top, Last
<1>4. Caused
  BY <1>1, <1>3, ResultTypes DEF Caused
<1>5. Counted
  BY <1>1, <1>3 DEF Counted, Calling
<1> QED
  BY <1>2, <1>4, <1>5 DEF SumsInv, Raised, Finished

-----------------------------------------------------------------------------
(* Whom a task notifies is settled when it comes to its end, by what made  *)
(* it a changed one; nothing is added to that after it.                    *)
Stirring(e) ==
  /\ e.res.changed /\ Along(e.path, Len(stack))
  /\ \/ e.what = "item" /\ Len(e.path) = Len(stack)
     \/ e.what = "leave" /\ Len(e.path) > Len(stack)

Changing == Decided(Top.task, \E e \in Evidence : Stirring(e))

Ending ==
  stack # <<>> /\ Top.part = "end" /\ Top.task.kind # "block" /\ ~Top.res.skipped /\ ~Top.res.failed

HeardInv ==
  /\ \A l \in Events("leave") :
       Of(l).kind # "block" /\ ~l.res.skipped /\ Clean(l.res) /\ Decided(Of(l), Stirred(l.path)) =>
         Of(l).notify \subseteq notified
  /\ Ending /\ ~Top.res.lost /\ Changing => Top.task.notify \subseteq notified

OwedInv ==
  \A h \in notified :
    \/ \E l \in Events("leave") :
         Of(l).kind # "block" /\ ~l.res.skipped /\ ~l.res.failed /\ Decided(Of(l), Stirred(l.path)) /\ h \in Of(l).notify
    \/ Ending /\ Changing /\ h \in Top.task.notify

(* A frame that comes to its end has added up what changed.                *)
LEMMA ChangingIs ==
  ASSUME TypeInv, HistoryInv, SumsInv, NEW f, Turn(f), Heeds(f), Concludes(f)
  PROVE  /\ f.res.changed => Changing
         /\ Changing => f.res.changed \/ f.res.lost
<1>0. PICK n : n = Len(stack)
  OBVIOUS
<1>1. /\ stack # <<>> /\ n \in Nat \ {0} /\ Top = stack[n] /\ Top.task \in Tasks /\ Shape(Top) /\ Top.res \in Results
      /\ f.task = Top.task /\ f.res.lost = Top.res.lost
      /\ f.res \in Results
  <2>1. stack # <<>> /\ f \in Frames /\ f.task = Top.task
    BY DEF Turn
  <2> QED
    BY <1>0, <2>1, TopFacts DEF Concludes, Frames
<1>2. Top.task.kind \in Kinds /\ Top.task.kind # "block" /\ Top.task.changed_when \in Judgements
  BY <1>1, TaskLogicAssumption DEF Concludes, TaskAssumption
<1> DEFINE some == \E e \in Evidence : Stirring(e)
<1>3. \A e \in Evidence : /\ e.path \in Paths /\ e.path \in Seq(Places) \ {<<>>} /\ Len(e.path) \in Nat \ {0}
                          /\ e.what = "item" => e \in Events("item")
                          /\ e.what = "leave" => e \in Events("leave")
  BY EvidenceType, EventType DEF Evidence
<1>4. /\ \A e \in Events("item") : e \in Evidence /\ e.what = "item"
      /\ \A e \in Events("leave") : e \in Evidence /\ e.what = "leave" /\ Len(e.path) \in Nat
  BY EventType DEF Evidence
<1>5. CASE Top.task.kind = "module"
  <2>1. Top.part = "judge" /\ f.res.changed = Judged(Top.task.changed_when, Top.res.changed)
    BY <1>1, <1>5 DEF Concludes
  <2>2. CASE Top.task.changed_when # None
    BY <1>5, <2>1, <2>2 DEF Changing, Decided, Judged
  <2>3. CASE Top.task.changed_when = None
    <3>1. (Changing <=> some) /\ f.res.changed = Top.res.changed
      BY <2>1, <2>3 DEF Changing, Decided, Judged
    <3>2. Top.res.changed => some
      <4>1. ASSUME Top.res.changed PROVE some
        <5>1. PICK e \in Events("item") : Call(e)
          BY <1>1, <2>1, <4>1 DEF SumsInv, Counted, Calling
        <5>2. Stirring(e)
          BY <1>4, <5>1 DEF Call, Stirring
        <5> QED
          BY <1>4, <5>2
      <4> QED
        BY <4>1
    <3>3. ASSUME NEW e \in Evidence, Stirring(e) PROVE Top.res.changed \/ Top.res.lost
      <4>1. CASE e.what = "item"
        <5>1. Call(e) /\ e \in Events("item")
          BY <1>3, <3>3, <4>1 DEF Call, Stirring
        <5> QED
          BY <1>1, <2>1, <5>1 DEF SumsInv, Counted, Calling
      <4>2. CASE e.what # "item"
        <5>1. Len(e.path) > n /\ Along(e.path, n)
          BY <1>0, <3>3, <4>2 DEF Stirring
        <5>2. n \in 1 .. Len(e.path) - 1
          BY <1>1, <1>3, <5>1
        <5>3. Named(e.path[n].name).kind # "module"
          BY <1>3, <5>2 DEF HistoryInv, Kinded
        <5>4. e.path[n].name = Top.task.name
          BY <1>1, <5>1 DEF Along
        <5> QED
          BY <1>1, <1>5, <5>3, <5>4, NamedTask
      <4> QED
        BY <4>1, <4>2
    <3> HIDE DEF some
    <3>4. some => Top.res.changed \/ Top.res.lost
      BY <3>3 DEF some
    <3> QED
      BY <1>1, <3>1, <3>2, <3>4
  <2> QED
    BY <2>2, <2>3
<1>6. CASE Top.task.kind = "chart"
  <2>1. (Changing <=> some) /\ f.res.changed = Top.res.changed
    BY <1>1, <1>6 DEF Changing, Decided, Concludes
  <2>2. Top.res.changed => some
    <3>1. ASSUME Top.res.changed PROVE some
      <4>1. n \in 1 .. n
        BY <1>1
      <4>2. PICK e \in Events("leave") : n < Len(e.path) /\ Along(e.path, n) /\ e.res.changed
        BY <1>0, <1>1, <1>6, <3>1, <4>1 DEF SumsInv, Caused
      <4>3. Stirring(e)
        BY <1>0, <1>1, <1>4, <4>2 DEF Stirring
      <4> QED
        BY <1>4, <4>3
    <3> QED
      BY <3>1
  <2>3. ASSUME NEW e \in Evidence, Stirring(e) PROVE Top.res.changed \/ Top.res.lost
    <3>1. CASE e.what = "item"
      <4>1. Along(e.path, Len(e.path)) /\ Len(e.path) = n
        BY <1>0, <2>3, <3>1 DEF Stirring
      <4>2. Of(e) = Top.task
        BY <1>1, <1>3, <4>1, AlongTask
      <4> QED
        BY <1>3, <1>6, <3>1, <4>2 DEF HistoryInv, Kinded
    <3>2. CASE e.what # "item"
      <4>1. Len(e.path) > n /\ Along(e.path, n) /\ e \in Events("leave") /\ e.res.changed
        BY <1>0, <1>3, <2>3, <3>2 DEF Stirring
      <4>2. n < Len(e.path)
        BY <1>1, <1>3, <4>1
      <4>3. PICK k \in n .. Len(e.path) - 1 : Along(e.path, k) /\ (stack[k].res.changed \/ stack[k].res.lost)
        BY <1>1, <4>1, <4>2 DEF SumsInv, Raised
      <4>4. k = n
        <5>1. k \in 1 .. n
          BY <1>0, <4>3 DEF Along
        <5> QED
          BY <1>1, <4>3, <5>1
      <4> QED
        BY <1>1, <4>3, <4>4
    <3> QED
      BY <3>1, <3>2
  <2> HIDE DEF some
  <2>4. some => Top.res.changed \/ Top.res.lost
    BY <2>3 DEF some
  <2> QED
    BY <1>1, <2>1, <2>2, <2>4
<1> QED
  BY <1>2, <1>5, <1>6 DEF Kinds

(* What made a task that ended a changed one is final.                     *)
LEMMA StirredStays ==
  ASSUME TypeInv, TypeInv', Next, HistoryInv, Finished
  PROVE  \A l \in Events("leave") : Stirred(l.path)' <=> Stirred(l.path)
<1> SUFFICES ASSUME NEW l, l \in Events("leave") PROVE Stirred(l.path)' <=> Stirred(l.path)
  OBVIOUS
<1>1. l.path \in Seq(Places) \ {<<>>} /\ Len(l.path) \in Nat \ {0}
  BY EventType
<1>2. ASSUME NEW e, (e \in Evidence)', e \notin Evidence, Stirs(e, l.path) PROVE FALSE
  <2>1. stack # <<>> /\ e.path = Path /\ Len(Path) = Len(stack) /\ Len(stack) \in Nat
    BY <1>2, EvidenceGrows, TopFacts
  <2>2. Shares(Path, l.path, Len(l.path)) /\ Len(l.path) \in 1 .. Len(stack) /\ Len(l.path) \in 1 .. Len(l.path)
    BY <1>1, <1>2, <2>1 DEF Stirs
  <2>3. Along(l.path, Len(l.path))
    BY <2>1, <2>2, SharesAlong
  <2> QED
    BY <2>3 DEF Finished
<1>3. Stirred(l.path)' <=> \E e : (e \in Evidence)' /\ Stirs(e, l.path)
  BY DEF Stirred, Stirs, Shares
<1>4. \A e : e \in Evidence => (e \in Evidence)'
  BY EvidenceStays
<1> QED
  BY <1>2, <1>3, <1>4 DEF Stirred

LEMMA TurnHears ==
  ASSUME TypeInv, TypeInv', Next, HistoryInv, Finished, SumsInv, HeardInv, OwedInv, NEW f, Turn(f), Heeds(f)
  PROVE  HeardInv' /\ OwedInv'
<1>0. PICK n : n = Len(stack)
  OBVIOUS
<1>1. /\ stack # <<>> /\ stack' # <<>> /\ n \in Nat \ {0} /\ Len(stack') = n /\ Top' = f /\ f.task = Top.task
      /\ Top.part # "end" /\ Sums(f) /\ Shape(Top) /\ f.res \in Results
  <2>1. Len(stack) \in Nat \ {0} /\ Len(stack') = Len(stack) /\ stack'[Len(stack)] = f
    BY TurnFrames DEF TypeInv
  <2>2. stack # <<>> /\ f.task = Top.task /\ Top.part # "end" /\ Sums(f) /\ f \in Frames
    BY DEF Turn, Heeds, Progress
  <2>3. stack' # <<>> /\ Top' = f
    BY <2>1 DEF Top, Last
  <2> QED
    BY <1>0, <2>1, <2>2, <2>3, TopFacts DEF Frames
<1>2. Events("leave")' = Events("leave")
  BY StepEvents
<1>3. \A l \in Events("leave") : Stirred(l.path)' <=> Stirred(l.path)
  BY StirredStays
<1>4. notified \subseteq notified'
  BY DEF Heeds, Concludes, Notify
<1>5. ASSUME Concludes(f)
      PROVE  /\ f.res.changed => Changing'
             /\ Changing' => f.res.changed \/ f.res.lost
  <2>1. log' = log \/ log' = Noted("enter", Ok)
    <3>1. Top.part \notin {"item", "attempt"}
      BY <1>1, <1>5, TopFacts, TaskLogicAssumption DEF Concludes, Shape, TaskAssumption, Kinds
    <3> QED
      BY <1>1, <3>1 DEF Sums
  <2>2. \A e : (e \in Evidence)' <=> e \in Evidence
    BY <1>1, <2>1, EventsStay, EventsGrow, ResultTypes DEF Evidence
  <2>3. \A e : Stirring(e)' <=> Stirring(e)
    BY <1>0, <1>1, TurnAlong DEF Stirring
  <2>4. Changing' <=> Changing
    BY <1>1, <2>2, <2>3 DEF Changing, Decided
  <2> QED
    BY <1>5, <2>4, ChangingIs
<1>6. Ending' => Ending' /\ f.part = "end" /\ f.task.kind # "block" /\ ~f.res.skipped /\ ~f.res.failed
  BY <1>1 DEF Ending
<1>7. Ending' /\ ~f.res.lost /\ Changing' => f.task.notify \subseteq notified'
  <2>1. ASSUME Ending', ~f.res.lost, Changing' PROVE f.task.notify \subseteq notified'
    <3>1. Concludes(f)
      BY <1>6, <2>1 DEF Heeds, Clean
    <3>2. f.res.changed
      BY <1>5, <2>1, <3>1
    <3> QED
      BY <1>6, <2>1, <3>1, <3>2 DEF Concludes, Notify
  <2> QED
    BY <2>1
<1>8. HeardInv'
  <2>1. ASSUME NEW l, (l \in Events("leave"))', Of(l).kind # "block", ~l.res.skipped, Clean(l.res),
               Decided(Of(l), Stirred(l.path)')
        PROVE  Of(l).notify \subseteq notified'
    <3>1. l \in Events("leave") /\ Decided(Of(l), Stirred(l.path))
      BY <1>2, <1>3, <2>1 DEF Decided
    <3> QED
      BY <1>4, <2>1, <3>1 DEF HeardInv
  <2> QED
    BY <1>1, <1>7, <2>1 DEF HeardInv, Of, Named, Clean, Decided
<1>9. ASSUME NEW h, h \in notified'
      PROVE  \/ \E l \in Events("leave")' :
                   /\ Of(l).kind # "block" /\ ~l.res.skipped /\ ~l.res.failed
                   /\ Decided(Of(l), Stirred(l.path)') /\ h \in Of(l).notify
             \/ Ending' /\ Changing' /\ h \in f.task.notify
  <2>1. CASE h \in notified
    <3>1. ~Ending
      BY <1>1 DEF Ending
    <3>2. PICK l \in Events("leave") : /\ Of(l).kind # "block" /\ ~l.res.skipped /\ ~l.res.failed
                                       /\ Decided(Of(l), Stirred(l.path)) /\ h \in Of(l).notify
      BY <2>1, <3>1 DEF OwedInv
    <3>3. Decided(Of(l), Stirred(l.path)')
      BY <1>3, <3>2 DEF Decided
    <3> QED
      BY <1>2, <3>2, <3>3
  <2>2. CASE h \notin notified
    <3>1. Concludes(f)
      BY <1>9, <2>2 DEF Heeds
    <3>2. f.res.changed /\ h \in f.task.notify
      BY <1>9, <2>2, <3>1 DEF Concludes, Notify
    <3>3. Ending'
      BY <1>1, <3>1 DEF Ending, Concludes
    <3> QED
      BY <1>5, <3>1, <3>2, <3>3
  <2> QED
    BY <2>1, <2>2
<1>10. OwedInv'
  BY <1>1, <1>9 DEF OwedInv, Of, Named, Decided
<1> QED
  BY <1>8, <1>10

LEMMA DeepensHears ==
  ASSUME TypeInv, TypeInv', HeardInv, OwedInv, NEW f, NEW g, Deepens(f, g)
  PROVE  HeardInv' /\ OwedInv'
<1>1. /\ log' = log /\ notified' = notified /\ Top.part \in Sequences /\ g.part = "start"
  BY DEF Deepens
<1>2. Top' = g
  <2>1. Len(stack') = Len(stack) + 1 /\ stack'[Len(stack) + 1] = g
    BY DeepensFrames DEF TypeInv
  <2> QED
    BY <2>1 DEF Top, Last
<1>3. ~Ending /\ ~Ending'
  BY <1>1, <1>2 DEF Ending, Sequences
<1>4. \A w : Events(w)' = Events(w)
  BY <1>1, EventsStay
<1>5. \A p : Stirred(p)' <=> Stirred(p)
  BY <1>4 DEF Stirred, Stirs, Shares, Evidence
<1>6. HeardInv'
  BY <1>1, <1>3, <1>4, <1>5 DEF HeardInv, Of, Named, Clean, Decided
<1>7. OwedInv'
  BY <1>1, <1>3, <1>4, <1>5 DEF OwedInv, Of, Named, Decided
<1> QED
  BY <1>6, <1>7

LEMMA ReturnHears ==
  ASSUME TypeInv, TypeInv', Next, HistoryInv, Finished, HeardInv, OwedInv, notified' = notified,
         Closes \/ \E g : Pops(g) /\ Adds(Parent, Top.res, g)
  PROVE  HeardInv' /\ OwedInv'
<1>0. PICK n, path : n = Len(stack) /\ path = Path
  OBVIOUS
<1>x. PICK x : x = [what |-> "leave", path |-> path, res |-> Top.res]
  OBVIOUS
<1>1. stack # <<>> /\ Top.part = "end" /\ Top \in Frames /\ n \in Nat \ {0} /\ Top = stack[n]
  <2>1. stack # <<>> /\ Top.part = "end"
    BY DEF Closes, Pops
  <2> QED
    BY <1>0, <2>1, TopFacts
<1>2. \A w, e : (e \in Events(w))' <=> e \in Events(w) \/ (w = "leave" /\ e = x)
  <2>1. Closes \/ \E g : Pops(g)
    OBVIOUS
  <2> QED
    BY <1>0, <1>x, <2>1, StepEvents
<1>3. \A l \in Events("leave") : Stirred(l.path)' <=> Stirred(l.path)
  BY StirredStays
<1>4. ~(Ending' /\ ~(Top.res.lost)')
  <2>1. CASE Closes
    BY <2>1 DEF Closes, Ending
  <2>2. ASSUME NEW g, Pops(g), Adds(Parent, Top.res, g) PROVE ~(Ending' /\ ~(Top.res.lost)')
    <3>1. /\ Parent.part \in Sequences /\ g.task = Parent.task /\ Hears(Parent, Top.task, Top.res, g)
          /\ Len(stack') = Len(stack) - 1 /\ stack'[Len(stack) - 1] = g
      BY <2>2, PopsFacts
    <3>2. Top' = g
      BY <3>1 DEF Top, Last
    <3>3. Shape(Parent)
      BY <2>2, ParentFacts DEF Pops
    <3>4. g.part = "end" => g.task.kind = "block" \/ g.res.lost
      BY <2>2, <3>1, <3>3 DEF Hears, Shape, Adds
    <3> QED
      BY <3>2, <3>4 DEF Ending
  <2> QED
    BY <2>1, <2>2
<1>5. /\ x.what = "leave" /\ x.path = path /\ x.res = Top.res /\ path \in Seq(Places) \ {<<>>} /\ Len(path) = n
      /\ Of(x) = Top.task
  <2>1. /\ x.what = "leave" /\ x.path = path /\ x.res = Top.res
    BY <1>x
  <2>2. path \in Seq(Places) \ {<<>>} /\ Len(path) = n /\ Along(path, n)
    BY <1>0, <1>1, PathAlong
  <2> QED
    BY <1>1, <2>1, <2>2, AlongTask
<1>6. Stirred(path)' <=> \E e \in Evidence : Stirring(e)
  <2>1. Stirred(path)' <=> \E e : (e \in Evidence)' /\ Stirs(e, path)
    BY DEF Stirred, Stirs, Shares
  <2>2. \A e : (e \in Evidence)' <=> e \in Evidence \/ e = x
    BY <1>2 DEF Evidence
  <2>3. ~Stirs(x, path)
    BY <1>1, <1>5 DEF Stirs
  <2>4. ASSUME NEW e \in Evidence PROVE Stirs(e, path) <=> Stirring(e)
    <3>1. Len(e.path) \in Nat \ {0}
      BY EvidenceType
    <3>2. CASE Len(e.path) >= n
      <4>1. n \in 1 .. Len(e.path) /\ n \in 1 .. n
        BY <1>1, <3>1, <3>2
      <4>2. Shares(e.path, path, n) <=> Along(e.path, n)
        BY <1>0, <1>1, <4>1, SharesAlong
      <4> QED
        BY <1>0, <1>5, <4>2 DEF Stirs, Stirring
    <3>3. CASE ~(Len(e.path) >= n)
      BY <1>0, <1>1, <1>5, <3>1, <3>3 DEF Stirs, Stirring
    <3> QED
      BY <3>2, <3>3
  <2> QED
    BY <2>1, <2>2, <2>3, <2>4
<1>7. Decided(Of(x), Stirred(path)') <=> Changing
  BY <1>5, <1>6 DEF Changing, Decided
<1>8. HeardInv'
  <2>1. ASSUME NEW l, (l \in Events("leave"))', Of(l).kind # "block", ~l.res.skipped, Clean(l.res),
               Decided(Of(l), Stirred(l.path)')
        PROVE  Of(l).notify \subseteq notified
    <3>1. CASE l \in Events("leave")
      <4>1. Decided(Of(l), Stirred(l.path))
        BY <1>3, <2>1, <3>1 DEF Decided
      <4> QED
        BY <2>1, <3>1, <4>1 DEF HeardInv
    <3>2. CASE l = x
      <4>1. Decided(Of(x), Stirred(path)')
        BY <1>5, <2>1, <3>2
      <4>2. Changing /\ Ending /\ ~Top.res.lost
        BY <1>1, <1>5, <1>7, <2>1, <3>2, <4>1 DEF Ending, Clean
      <4> QED
        BY <1>5, <3>2, <4>2 DEF HeardInv
    <3> QED
      BY <1>2, <2>1, <3>1, <3>2
  <2> QED
    BY <1>4, <2>1 DEF HeardInv, Of, Named, Clean, Decided
<1>9. ASSUME NEW h \in notified
      PROVE  \E l : /\ (l \in Events("leave"))' /\ Of(l).kind # "block" /\ ~l.res.skipped /\ ~l.res.failed
                    /\ Decided(Of(l), Stirred(l.path)') /\ h \in Of(l).notify
  <2>1. CASE \E l \in Events("leave") : /\ Of(l).kind # "block" /\ ~l.res.skipped /\ ~l.res.failed
                                       /\ Decided(Of(l), Stirred(l.path)) /\ h \in Of(l).notify
    <3>1. PICK l \in Events("leave") : /\ Of(l).kind # "block" /\ ~l.res.skipped /\ ~l.res.failed
                                       /\ Decided(Of(l), Stirred(l.path)) /\ h \in Of(l).notify
      BY <2>1
    <3>2. Decided(Of(l), Stirred(l.path)')
      BY <1>3, <3>1 DEF Decided
    <3> QED
      BY <1>2, <3>1, <3>2
  <2>2. CASE Ending /\ Changing /\ h \in Top.task.notify
    <3>1. (x \in Events("leave"))' /\ Decided(Of(x), Stirred(x.path)')
      BY <1>2, <1>5, <1>7, <2>2
    <3>2. Of(x).kind # "block" /\ ~x.res.skipped /\ ~x.res.failed /\ h \in Of(x).notify
      BY <1>5, <2>2 DEF Ending
    <3> QED
      BY <3>1, <3>2
  <2> QED
    BY <2>1, <2>2 DEF OwedInv
<1>10. OwedInv'
  BY <1>9 DEF OwedInv, Of, Named, Decided
<1> QED
  BY <1>8, <1>10

LEMMA HearsStep ==
  ASSUME TypeInv, HistoryInv, Finished, SumsInv, HeardInv, OwedInv, [Next]_state
  PROVE  HeardInv' /\ OwedInv'
<1>1. TypeInv'
  BY TypeStep
<1>2. CASE UNCHANGED state
  <2>1. stack' = stack /\ Top' = Top /\ notified' = notified /\ \A w : Events(w)' = Events(w)
    BY <1>2 DEF state, Events, Top
  <2>2. \A p : Stirred(p)' <=> Stirred(p)
    BY <2>1 DEF Stirred, Stirs, Shares, Evidence
  <2>3. \A e : Stirring(e)' <=> Stirring(e)
    BY <2>1 DEF Stirring, Along
  <2>4. (Changing' <=> Changing) /\ (Ending' <=> Ending)
    BY <2>1, <2>3 DEF Changing, Ending, Decided, Evidence
  <2>5. HeardInv'
    BY <2>1, <2>2, <2>4 DEF HeardInv, Of, Named, Clean, Decided
  <2>6. OwedInv'
    BY <2>1, <2>2, <2>4 DEF OwedInv, Of, Named, Decided
  <2> QED
    BY <2>5, <2>6
<1>3. CASE Next
  <2>1. Unskipped
    BY DEF HistoryInv
  <2> QED
    BY <1>1, <1>3, <2>1, EveryStepHeeds, TurnHears, DeepensHears, ReturnHears
<1> QED
  BY <1>2, <1>3

(* What the property asks of the history is what the frames settled.       *)
LEMMA FrontIs ==
  ASSUME NEW q \in Seq(Places) \ {<<>>}
  PROVE  /\ Front(q) \in Seq(Places) /\ Len(Front(q)) = Len(q) - 1
         /\ \A j \in 1 .. Len(q) - 1 : Front(q)[j] = q[j]
<1> DEFINE n == Len(q) - 1
           u == Front(q)
<1>1. Len(q) \in Nat \ {0} /\ n \in Nat /\ \A j \in 1 .. n : j \in 1 .. Len(q)
  BY EmptySeq
<1>2. \A j \in 1 .. Len(q) : q[j] \in Places
  OBVIOUS
<1>3. u = SubSeq(q, 1, n)
  BY DEF Front
<1> HIDE DEF n, u
<1>4. \A j \in 1 .. n : q[j] \in Places
  BY <1>1, <1>2
<1>5. 1 \in Int /\ n \in Int
  BY <1>1
<1>6. /\ u \in Seq(Places) /\ Len(u) = IF 1 <= n THEN n - 1 + 1 ELSE 0
      /\ \A i \in 1 .. n - 1 + 1 : u[i] = q[1 + i - 1]
  BY <1>3, <1>4, <1>5, SubSeqProperties
<1>7. \A i \in 1 .. n : i \in 1 .. n - 1 + 1 /\ 1 + i - 1 = i
  BY <1>1
<1>8. u \in Seq(Places) /\ Len(u) = n /\ \A j \in 1 .. n : u[j] = q[j]
  BY <1>1, <1>6, <1>7
<1> QED
  BY <1>8 DEF n, u

LEMMA ChangesIs ==
  ASSUME TypeInv, NEW l \in Events("leave")
  PROVE  Changes(l) <=> Decided(Of(l), Stirred(l.path))
<1> DEFINE p == l.path
           calls == {x \in Events("item") : Front(x.path) = Front(p) /\ Of(x) = Of(l)}
           inner == {x \in Events("leave") : Under(x, p)}
           some == (\E x \in calls : x.res.changed) \/ (\E x \in inner : x.res.changed)
<1>1. p \in Seq(Places) \ {<<>>} /\ Len(p) \in Nat \ {0}
  BY EventType
<1>2. \A x : x \in calls \/ x \in inner => x.res.changed \in BOOLEAN
  BY EventType DEF Results
<1>3. (TRUE \in {e.res.changed : e \in calls} \cup {e.res.changed : e \in inner}) <=> some
  BY <1>2
<1>4. Changes(l) <=> Decided(Of(l), some)
  BY <1>3 DEF Changes, Decided
<1>5. ASSUME NEW x \in Events("item") PROVE x \in calls <=> Len(x.path) = Len(p) /\ Shares(x.path, p, Len(p))
  <2> DEFINE q == x.path
  <2>1. q \in Seq(Places) \ {<<>>} /\ Len(q) \in Nat \ {0}
    BY EventType
  <2>2. Len(q) \in 1 .. Len(q) /\ Len(p) \in 1 .. Len(p)
    BY <1>1, <2>1
  <2>3. q[Len(q)] \in Places /\ p[Len(p)] \in Places /\ Last(q) = q[Len(q)] /\ Last(p) = p[Len(p)]
    BY <1>1, <2>1, <2>2 DEF Last
  <2>4. PICK t \in Tasks, u \in Tasks : q[Len(q)].name = t.name /\ p[Len(p)].name = u.name
    BY <2>3 DEF Places
  <2>5. Of(x) = t /\ Of(l) = u
    BY <2>3, <2>4, NamedTask DEF Of
  <2>6. Of(x) = Of(l) <=> q[Len(q)].name = p[Len(p)].name
    BY <2>4, <2>5, TaskLogicAssumption DEF PlaceAssumption
  <2>7. Front(q) = Front(p) <=> Len(q) = Len(p) /\ \A j \in 1 .. Len(p) - 1 : q[j] = p[j]
    <3> DEFINE a == Front(q)
               b == Front(p)
    <3>1. a \in Seq(Places) /\ Len(a) = Len(q) - 1 /\ \A j \in 1 .. Len(q) - 1 : a[j] = q[j]
      BY <2>1, FrontIs
    <3>2. b \in Seq(Places) /\ Len(b) = Len(p) - 1 /\ \A j \in 1 .. Len(p) - 1 : b[j] = p[j]
      BY <1>1, FrontIs
    <3> HIDE DEF a, b
    <3>3. a = b => Len(q) = Len(p) /\ \A j \in 1 .. Len(p) - 1 : q[j] = p[j]
      BY <1>1, <2>1, <3>1, <3>2
    <3>4. Len(q) = Len(p) /\ (\A j \in 1 .. Len(p) - 1 : q[j] = p[j]) => a = b
      BY <1>1, <2>1, <3>1, <3>2, SeqEqual
    <3> QED
      BY <3>3, <3>4 DEF a, b
  <2> QED
    BY <2>6, <2>7 DEF Shares
<1>6. ASSUME NEW x \in Events("leave") PROVE x \in inner <=> Len(x.path) > Len(p) /\ Shares(x.path, p, Len(p))
  <2>1. x.path \in Seq(Places)
    BY EventType
  <2> QED
    BY <1>1, <2>1, UnderIs
<1>7. (\A x \in Events("item") : x.what = "item") /\ (\A x \in Events("leave") : x.what = "leave")
  BY EventType
<1>8. (\A x \in calls : x \in Events("item")) /\ (\A x \in inner : x \in Events("leave"))
  OBVIOUS
<1> HIDE DEF calls, inner
<1>9. some <=> Stirred(p)
  BY <1>5, <1>6, <1>7, <1>8 DEF Stirred, Stirs, Evidence
<1> HIDE DEF some
<1> QED
  BY <1>4, <1>9 DEF Decided

LEMMA HeardIsSafe == TypeInv /\ HeardInv /\ OwedInv => HandlersHear
<1> SUFFICES ASSUME TypeInv, HeardInv, OwedInv, Done PROVE HandlersHear
  BY DEF HandlersHear
<1> DEFINE ended == {l \in Events("leave") : Of(l).kind # "block" /\ ~l.res.skipped}
           heard == {l \in ended : Clean(l.res) /\ Changes(l)}
           owing == {x \in ended : ~x.res.failed /\ Changes(x)}
<1>1. ASSUME NEW l \in heard PROVE Of(l).notify \subseteq notified
  <2>1. l \in Events("leave") /\ Of(l).kind # "block" /\ ~l.res.skipped /\ Clean(l.res) /\ Changes(l)
    OBVIOUS
  <2> QED
    BY <2>1, ChangesIs DEF HeardInv
<1>2. ASSUME NEW h \in notified PROVE \E l \in owing : h \in Of(l).notify
  <2>1. ~Ending
    BY DEF Ending, Done
  <2>2. PICK l \in Events("leave") : /\ Of(l).kind # "block" /\ ~l.res.skipped /\ ~l.res.failed
                                     /\ Decided(Of(l), Stirred(l.path)) /\ h \in Of(l).notify
    BY <2>1 DEF OwedInv
  <2>3. Changes(l)
    BY <2>2, ChangesIs
  <2>4. l \in owing
    BY <2>2, <2>3
  <2> QED
    BY <2>2, <2>4
<1>3. UNION {Of(l).notify : l \in heard} \subseteq notified
  BY <1>1
<1>4. notified \subseteq UNION {Of(l).notify : l \in owing}
  BY <1>2
<1> QED
  BY <1>3, <1>4 DEF HandlersHear

LEMMA InitHears == Init => HeardInv /\ OwedInv
<1> SUFFICES ASSUME Init PROVE HeardInv /\ OwedInv
  OBVIOUS
<1>1. log = <<>> /\ stack # <<>> /\ Len(stack) = 1 /\ stack[1].part = "start" /\ notified = {}
  BY InitTyped DEF Init
<1>2. \A w : Events(w) = {}
  BY <1>1 DEF Events
<1>3. ~Ending
  BY <1>1 DEF Ending, Top, Last
<1> QED
  BY <1>1, <1>2, <1>3 DEF HeardInv, OwedInv

(* Whatever tasks there are and however they are nested, looped and        *)
(* retried: a handler is notified exactly for the tasks whose calls, or    *)
(* whose charts' tasks, changed something or that changed_when says did    *)
(* (the notify of runTaskOnHost and of runChartTask).                      *)
THEOREM HandlersHeard == Spec => []HandlersHear
<1>1. Init => TypeInv /\ HistoryInv /\ Finished /\ SumsInv /\ HeardInv /\ OwedInv
  BY InitTyped, InitHistory, InitSums, InitHears
<1>2. TypeInv /\ HistoryInv /\ Finished /\ SumsInv /\ HeardInv /\ OwedInv /\ [Next]_state
      => (TypeInv /\ HistoryInv /\ Finished /\ SumsInv /\ HeardInv /\ OwedInv)'
  BY TypeStep, HistoryStep, FinishedStep, SumsStep, HearsStep
<1> QED
  BY <1>1, <1>2, HeardIsSafe, PTL DEF Spec
==============================================================================
