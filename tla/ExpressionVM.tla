---------------------------- MODULE ExpressionVM ----------------------------
(***************************************************************************)
(* The isolate of the expression engine: it parses and compiles a source   *)
(* and runs the instructions on a stack machine, one per step.             *)
(*                                                                         *)
(* Sources are records of the tokens, their flavour, the environment and   *)
(* the tree the writer of the source means.                                *)
(***************************************************************************)
EXTENDS ExpressionCompiler, ExpressionMeaning

CONSTANT Sources

VARIABLES
    source,     \* the source that is run
    code,       \* its instructions
    ip,         \* how many instructions are before the next one
    stack,      \* the values, the top last
    scopes,     \* the closures being run, the innermost last
    env,        \* the environment with the names assigned so far
    assigned,   \* the object being assigned, Failed when there is none
    status,     \* running, done, refused, panicked or broken
    result      \* the value the run has answered

vars == <<source, code, ip, stack, scopes, env, assigned, status, result>>
machine == <<stack, scopes, env, assigned>>

\* From the tokens to the code, or to the error of the parser or the compiler.
Programs ==
    {[source |-> s, code |-> CompileNode(Parse(s.tokens, s.flavour), <<>>)] : s \in Sources}

\* The isolate has compiled the source before its machine takes a step.
Init ==
    \E p \in Programs :
        /\ source = p.source /\ code = p.code
        /\ status = IF Uncompilable(p.code) THEN "refused" ELSE "running"
        /\ ip = 0 /\ stack = <<>> /\ scopes = <<>>
        /\ env = source.env /\ assigned = Failed /\ result = Null

-----------------------------------------------------------------------------
(* Steps of the machine *)

Operation == code[ip + 1]
At(op) == status = "running" /\ ip < Len(code) /\ Operation.op = op

Stop(how) == status' = how /\ UNCHANGED <<source, code, ip, result, machine>>

Continue == ip' = ip + 1 /\ UNCHANGED <<source, code, status, result>>

Holds(n) == Len(stack) >= n
\* The n-th value from the top.
Top(n) == stack[Len(stack) + 1 - n]
Rest(n) == SubSeq(stack, 1, Len(stack) - n)
Scope(depth) == scopes[Len(scopes) - depth]
InScope(depth) == Len(scopes) > depth

\* Replaces the n values on top by v, or stops when v is no value.
Replace(n, v) ==
    IF v = Failed THEN Stop("refused")
    ELSE IF v \in {Panicked, Beyond} THEN Stop("panicked")
    ELSE stack' = Append(Rest(n), v) /\ Continue /\ UNCHANGED <<scopes, env, assigned>>

PushValue == At("Push") /\ Replace(0, Operation.value)

PopValue ==
    /\ At("Pop")
    /\ IF Holds(1) THEN stack' = Rest(1) /\ Continue /\ UNCHANGED <<scopes, env, assigned>>
       ELSE Stop("broken")

FetchValue ==
    At("Fetch") /\ IF Holds(2) THEN Replace(2, Fetch(Top(2), Top(1))) ELSE Stop("broken")

FetchPath ==
    /\ At("FetchFast")
    /\ LET target(v, t) == IF t = ToRoot THEN source.env
                           ELSE IF t = ToBegin THEN env ELSE FetchTarget(v, t)
       IN  Replace(0, FoldLeft(target, Null, Operation.path))

FetchName ==
    /\ At("FetchEnv")
    /\ Replace(0, IF env.type \in {"object", "null"} THEN Key(env, Operation.name) ELSE Failed)

FetchRoot == At("FetchRootEnv") /\ Replace(0, env)

UnaryOperator ==
    /\ status = "running" /\ ip < Len(code) /\ Operation.op \in {"Negate", "Not"}
    /\ IF ~Holds(1) THEN Stop("broken")
       ELSE Replace(1, IF Operation.op = "Not" THEN Not(Top(1)) ELSE Negate(Top(1)))

BinaryOperator ==
    /\ At("Binary")
    /\ IF Holds(2) THEN Replace(2, Binary(Operation.operator, Top(2), Top(1))) ELSE Stop("broken")

MakeInterval ==
    /\ At("Interval")
    /\ IF ~Holds(2) THEN Stop("broken")
       ELSE Replace(2, IntervalOf(Operation.left, Top(2), Top(1), Operation.right))

\* Whether a jump is taken; a test of a value that is no boolean is refused.
Takes(when) ==
    CASE when = "IfTrue" -> Top(1) = Bool(TRUE)
      [] when = "IfFalse" -> Top(1) = Bool(FALSE)
      [] when = "IfNotNull" -> Top(1) # Null
      [] when = "IfEnd" -> Scope(0).iter >= Len(Scope(0).array)
      [] OTHER -> TRUE

JumpTo ==
    /\ At("Jump")
    /\ LET when == Operation.when
           tests == when \in {"IfTrue", "IfFalse"}
       IN  IF \/ (tests \/ when = "IfNotNull") /\ ~Holds(1)
              \/ when = "IfEnd" /\ ~InScope(0)
           THEN Stop("broken")
           ELSE IF tests /\ ~Is(Top(1), "bool") THEN Stop("refused")
           ELSE /\ ip' = IF ~Takes(when) THEN ip + 1
                         ELSE IF when = "Backward" THEN ip + 1 - Operation.by
                         ELSE ip + 1 + Operation.by
                /\ UNCHANGED <<source, code, status, result, machine>>

JoinParts ==
    /\ At("Join")
    /\ IF ~Holds(2) THEN Stop("broken") ELSE Replace(2, Join(Top(2)))

SliceValue ==
    /\ At("Slice")
    /\ IF ~Holds(3) THEN Stop("broken") ELSE Replace(3, Slice(Top(3), Top(1), Top(2)))

\* The number on top says how many values, or pairs of them, are below it.
CollectArray ==
    /\ At("Array")
    /\ IF ~Holds(1) \/ ~Is(Top(1), "number") \/ ~Holds(1 + Top(1).number) THEN Stop("broken")
       ELSE LET n == Top(1).number
            IN  Replace(n + 1, Array(SubSeq(stack, Len(stack) - n, Len(stack) - 1)))

CollectObject ==
    /\ At("Object")
    /\ IF ~Holds(1) \/ ~Is(Top(1), "number") \/ ~Holds(1 + 2 * Top(1).number) THEN Stop("broken")
       ELSE LET n == 2 * Top(1).number
            IN  Replace(n + 1, MakeObject(SubSeq(stack, Len(stack) - n, Len(stack) - 1)))

BeginAssigned ==
    /\ At("AssignedObjectBegin")
    /\ assigned' = Object([k \in {} |-> Null])
    /\ Continue /\ UNCHANGED <<stack, scopes, env>>

StepAssigned ==
    /\ At("AssignedObjectStep")
    /\ IF ~Holds(2) \/ assigned = Failed \/ ~Is(Top(2), "string") THEN Stop("broken")
       ELSE IF Insert(env, Top(2).string, Top(1)) = Failed THEN Stop("refused")
       ELSE /\ env' = Insert(env, Top(2).string, Top(1))
            /\ assigned' = Insert(assigned, Top(2).string, Top(1))
            /\ stack' = Rest(2)
            /\ Continue /\ UNCHANGED scopes

EndAssignment ==
    /\ At("AssignedObjectEnd")
    /\ IF assigned = Failed \/ (Operation.withReturn /\ ~Holds(1)) THEN Stop("broken")
       ELSE /\ assigned' = Failed
            /\ stack' = IF Operation.withReturn THEN stack ELSE Append(stack, assigned)
            /\ Continue /\ UNCHANGED <<scopes, env>>

TakeLen == At("Len") /\ IF Holds(1) THEN Replace(0, LenOf(Top(1))) ELSE Stop("broken")

FlattenValue == At("Flatten") /\ IF Holds(1) THEN Replace(1, Flatten(Top(1))) ELSE Stop("broken")

\* Counts in the innermost scope.
Count(field) ==
    IF ~InScope(0) THEN Stop("broken")
    ELSE /\ scopes' = [scopes EXCEPT ![Len(scopes)][field] = @ + 1]
         /\ Continue /\ UNCHANGED <<stack, env, assigned>>

IncrementIt == At("IncrementIt") /\ Count("iter")
IncrementCount == At("IncrementCount") /\ Count("count")
GetCount ==
    At("GetCount") /\ IF InScope(0) THEN Replace(0, Number(Scope(0).count)) ELSE Stop("broken")
GetLen ==
    At("GetLen") /\ IF InScope(0) THEN Replace(0, Number(Len(Scope(0).array))) ELSE Stop("broken")

Pointer ==
    /\ At("Pointer")
    /\ LET scope == Scope(Operation.depth)
       IN  IF InScope(Operation.depth) /\ scope.iter < Len(scope.array)
           THEN Replace(0, scope.array[scope.iter + 1])
           ELSE Stop("broken")

Begin ==
    /\ At("Begin")
    /\ IF ~Holds(1) THEN Stop("broken")
       ELSE IF Elements(Top(1)) = Failed THEN Stop("refused")
       ELSE /\ scopes' = Append(scopes, [array |-> Elements(Top(1)).array, iter |-> 0, count |-> 0])
            /\ stack' = Rest(1)
            /\ Continue /\ UNCHANGED <<env, assigned>>

End ==
    /\ At("End")
    /\ scopes' = IF InScope(0) THEN Front(scopes) ELSE scopes
    /\ Continue /\ UNCHANGED <<stack, env, assigned>>

CallTop ==
    /\ At("CallFunction")
    /\ LET n == Operation.count
       IN  IF Holds(n) THEN Replace(n, Call(Operation.function, SubSeq(stack, Len(stack) - n + 1, Len(stack))))
           ELSE Stop("broken")

\* After the last instruction the top of the stack is the answer, which in a
\* unary expression has to be a boolean.
Return ==
    /\ status = "running" /\ ip >= Len(code)
    /\ IF ~Holds(1) THEN Stop("broken")
       ELSE IF source.flavour = "unary" /\ ~Is(Top(1), "bool") THEN Stop("refused")
       ELSE /\ status' = "done" /\ result' = Top(1) /\ stack' = Rest(1)
            /\ UNCHANGED <<source, code, ip, scopes, env, assigned>>

Instructions ==
    \/ PushValue \/ PopValue \/ FetchValue \/ FetchPath \/ FetchName \/ FetchRoot
    \/ UnaryOperator \/ BinaryOperator \/ MakeInterval \/ JumpTo
    \/ JoinParts \/ SliceValue \/ CollectArray \/ CollectObject
    \/ BeginAssigned \/ StepAssigned \/ EndAssignment
    \/ TakeLen \/ FlattenValue \/ IncrementIt \/ IncrementCount \/ GetCount \/ GetLen
    \/ Pointer \/ Begin \/ End \/ CallTop

Next == Instructions \/ Return

Spec == Init /\ [][Next]_vars

\* The machine runs until it stops: nothing else can happen meanwhile.
FairSpec == Spec /\ WF_vars(Next)

-----------------------------------------------------------------------------
(* Properties *)

\* The machine is never broken: whatever source was compiled, no instruction
\* finds too few values on the stack, no scope or an element outside of it, no
\* jump leaves the code, and at the end the stack and the scopes are empty.
TypeOK ==
    /\ status \in {"running", "done", "refused", "panicked"}
    /\ ip \in 0..Len(code)
    /\ status = "done" => stack = <<>> /\ scopes = <<>> /\ assigned = Failed

\* What the compiled source answers is what the writer means by its tree,
\* evaluated with no stack, jumps or scopes: parsing gives every operator its
\* operands, short circuits and closures compute nothing they do not need, and
\* a name is that of the innermost closure that has it.
ComputesMeaning ==
    LET meaning == Meaning(source.means, source.env)
    IN  /\ status = "done" => result = meaning
        /\ status = "refused" => meaning = Failed
        /\ status = "panicked" => meaning = Panicked

\* Every run stops: no loop goes on for ever.
Halts == <>(status # "running")

=============================================================================
