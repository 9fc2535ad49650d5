------------------------------ MODULE Evaluator ------------------------------
(***************************************************************************)
(* How Ö code runs: src/src/run.c, runast.c, stack.c, objects/block.c,     *)
(* objects/scope.c, objects/errors.c, lambdabuiltin.c and the control      *)
(* functions of builtins.c (if, for, throw, catch).                        *)
(*                                                                         *)
(* The interpreter is a tree walker: running a block is a recursive C      *)
(* call, an error is a pointer in interp->err plus a failing return value  *)
(* of every C function up to the one that handles it, and `return` is      *)
(* built on errors: a returning block gets a local function `return` that  *)
(* throws a MarkerError only that very run recognises.  The state below is *)
(* the stack of C activations that take part in this, the stack of frames  *)
(* the interpreter keeps beside it for tracebacks and for its recursion    *)
(* limit, the scopes, and the error objects.  Which statement an Ö program *)
(* runs next is a nondeterministic choice among the kinds in Program.      *)
(***************************************************************************)
EXTENDS Naturals, Sequences, FiniteSets

CONSTANTS
  StackMax,      \* STACK_MAX of interpreter.h: frames interp->stack has room for
  MaxScopes,     \* bound of the model: scopes ever created
  MaxErrors,     \* bound of the model: error objects alive at once
  DebugDepth,    \* frames String's to_debug_string needs (builtins.ö:273)
  Program,       \* kinds of statements the Ö program is made of
  ThrowClasses,  \* classes it throws with throw
  CatchClasses   \* classes it names in catch

StatementKinds ==
  { "throw", "rethrow", "return", "block", "function", "catch", "for", "run",
    "run_with_return", "set_return", "delete_return", "fall_through",
    "not_a_node", "odd_keys" }

Classes == { "Error", "ValueError", "VariableError", "TypeError", "MarkerError" }

ASSUME EvaluatorAssumption ==
  /\ StackMax \in Nat \ {0}
  /\ MaxScopes \in Nat \ {0, 1}
  /\ MaxErrors \in Nat \ {0}
  /\ DebugDepth \in Nat
  /\ Program \subseteq StatementKinds
  /\ ThrowClasses \subseteq Classes \ {"MarkerError"}
  /\ CatchClasses \subseteq Classes

VARIABLES
  calls,    \* the C activations, outermost first
  result,   \* what the activation that just ended returned to the last of calls
  frames,   \* interp->stack, each frame as the scope it holds
  err,      \* interp->err
  errs,     \* the error objects
  scopes,   \* the scopes, in the order of their creation
  saved     \* errors that some variable of the program holds

vars == << calls, result, frames, err, errs, scopes, saved >>

(***************************************************************************)
(* Errors.  stack is the number of frames in the error's traceback; 0 is   *)
(* the empty array of an error that was never thrown.  An error no one     *)
(* refers to is freed, and its identity can be used again.                 *)
(***************************************************************************)
ErrIds == 1 .. MaxErrors
NoErr == 0
NoError == [class |-> "none", stack |-> 0]
Errors == [class : Classes \cup {"none"}, stack : 0 .. StackMax]

IsInstance(e, class) == class \in {"Error", errs[e].class}
IsMarker(e) == e # NoErr /\ errs[e].class = "MarkerError"

Referenced ==
  {err} \cup saved \cup {calls[i].marker : i \in DOMAIN calls}
        \cup {scopes[s].ret : s \in DOMAIN scopes}

\* OBJECT_DECREF at the end of every step: what is not referenced is freed.
Collect(heap) ==
  errs' = [e \in ErrIds |-> IF e \in Referenced' THEN heap[e] ELSE NoError]

FreeErrs == {e \in ErrIds : errs[e] = NoError}
Fresh(e) == e \in FreeErrs /\ \A f \in FreeErrs : e <= f

\* errorobject_throw: the traceback is filled in by the first throw only
ThrownAgainOverwrites(heap, e) == [heap EXCEPT ![e].stack = Len(frames)]
Thrown(heap, e) ==
  [heap EXCEPT ![e].stack = IF @ = 0 THEN Len(frames) ELSE @]

\* errorobject_throwfmt: a new error of the given class, thrown at once
ThrowFmt(class) ==
  \E e \in ErrIds :
    /\ Fresh(e)
    /\ err' = e
    /\ Collect(Thrown([errs EXCEPT ![e] = [class |-> class, stack |-> 0]], e))

(***************************************************************************)
(* Scopes.  chain holds the scope and all its ancestors; a parent is set   *)
(* when a scope is created, so it is older than the scope, and never       *)
(* changes.  Of the local variables only `return` matters to control: ret  *)
(* is the marker its function throws.                                      *)
(***************************************************************************)
ScopeIds == 1 .. MaxScopes
BuiltinScope == 1
FileScope == 2

SubscopeOf(d) ==
  [chain |-> scopes[d].chain \cup {Len(scopes) + 1}, ret |-> NoErr]

\* scopeobject_getvar for the name `return`: the innermost scope that has it
Visible(s, m) ==
  \E t \in scopes[s].chain :
    /\ m = scopes[t].ret
    /\ m # NoErr
    /\ \A u \in scopes[s].chain : u > t => scopes[u].ret = NoErr
NothingVisible(s) == \A t \in scopes[s].chain : scopes[t].ret = NoErr

(***************************************************************************)
(* Activations.  depth is Len(frames) at the C function's entry.           *)
(***************************************************************************)
Phases == {"between", "stmt", "trying", "caught", "init", "cond", "body", "incr"}
Activations ==
  [ kind   : {"run", "ret", "catch", "for"},
    phase  : Phases,
    scope  : 0 .. MaxScopes,
    marker : 0 .. MaxErrors,
    class  : Classes \cup {"none"},
    depth  : 0 .. StackMax ]

Run(s) == [ kind |-> "run", phase |-> "between", scope |-> s, marker |-> NoErr,
            class |-> "none", depth |-> Len(frames) ]
Ret(s, m) == [Run(s) EXCEPT !.kind = "ret", !.marker = m]
Catch(class) ==
  [Run(0) EXCEPT !.kind = "catch", !.phase = "trying", !.class = class]
For(s) == [Run(s) EXCEPT !.kind = "for", !.phase = "init"]

Top == calls[Len(calls)]
Pop == SubSeq(calls, 1, Len(calls) - 1)
InPhase(phase) == [calls EXCEPT ![Len(calls)].phase = phase]
At(kind, phase, res) ==
  calls # << >> /\ Top.kind = kind /\ Top.phase = phase /\ result = res
Return(res) == calls' = Pop /\ result' = res

(***************************************************************************)
(* Bounds.  One error identity is kept free for the next error thrown, one *)
(* for every condition a for loop still has to check and one for a marker  *)
(* of its that the program stored away; one scope for the second block of  *)
(* every catch.  So a bound never cuts short what has begun.               *)
(***************************************************************************)
ErrorNeed(a) ==
  CASE a.kind # "for" -> 0
    [] a.phase = "cond" -> 1
    [] OTHER -> 2
ErrorReserve[n \in Nat] ==
  IF n = 0 THEN 1 ELSE ErrorReserve[n - 1] + ErrorNeed(calls[n])
RoomForErrors(n) == ErrorReserve[Len(calls)] + n <= Cardinality(FreeErrs)
RoomForScopes(n) ==
  Len(scopes) + n + Cardinality({i \in DOMAIN calls : calls[i].phase = "trying"})
    <= MaxScopes
-----------------------------------------------------------------------------
Init ==
  /\ calls = << >>
  /\ result = "none"
  /\ frames = << >>
  /\ err = NoErr
  /\ errs = [e \in ErrIds |-> NoError]
  /\ scopes = << [chain |-> {BuiltinScope}, ret |-> NoErr],
                 [chain |-> {BuiltinScope, FileScope}, ret |-> NoErr] >>
  /\ saved = {}

\* run_mainfile, or a line of the REPL: run() starts in the file's scope
StartFile ==
  /\ calls = << >>
  /\ result = "none"
  /\ calls' = << Run(FileScope) >>
  /\ UNCHANGED << result, frames, err, errs, scopes, saved >>

\* print_and_reset_err after run() failed
FileDone ==
  /\ calls = << >>
  /\ result # "none"
  /\ result' = "none"
  /\ err' = NoErr
  /\ UNCHANGED << calls, frames, scopes, saved >>
  /\ Collect(errs)

(***************************************************************************)
(* The statement loop of run() and blockobject_run().                      *)
(***************************************************************************)
PushAlways == TRUE
PushUnlessSameScope == frames = << >> \/ frames[Len(frames)] # Top.scope
NeedsFrame == PushAlways

StackNeverFull == FALSE
StackFull == Len(frames) = StackMax

BeginStatement ==
  /\ At("run", "between", "none")
  /\ ~StackFull
  /\ calls' = InPhase("stmt")
  /\ frames' = IF NeedsFrame THEN Append(frames, Top.scope) ELSE frames
  /\ UNCHANGED << result, err, errs, scopes, saved >>

TooMuchRecursion ==
  /\ At("run", "between", "none")
  /\ StackFull
  /\ Return("fail")
  /\ UNCHANGED << frames, scopes, saved >>
  /\ ThrowFmt("ValueError")

\* the program put something that is no AstNode into the ast_statements of a block
NotAnAstNode ==
  /\ "not_a_node" \in Program /\ Len(calls) > 1
  /\ At("run", "between", "none")
  /\ Return("fail")
  /\ UNCHANGED << frames, scopes, saved >>
  /\ ThrowFmt(IF Len(frames) + DebugDepth > StackMax THEN "ValueError" ELSE "TypeError")

EndBlock ==
  /\ At("run", "between", "none")
  /\ "fall_through" \notin Program
       => ~(Len(calls) > 1 /\ calls[Len(calls) - 1].kind = "ret")
  /\ Return("ok")
  /\ UNCHANGED << frames, err, errs, scopes, saved >>

PopFrame == SubSeq(frames, 1, Len(frames) - 1)
PopUnlessFailed == IF result = "fail" THEN frames ELSE PopFrame
PoppedFrames == PopFrame

StopBlock == Return("fail")
KeepRunning == calls' = InPhase("between") /\ result' = "none"
StatementFails == StopBlock

EndStatement ==
  /\ \/ At("run", "stmt", "ok") /\ calls' = InPhase("between") /\ result' = "none"
     \/ At("run", "stmt", "fail") /\ StatementFails
  /\ frames' = PoppedFrames
  /\ UNCHANGED << err, errs, scopes, saved >>

\* A returning function gave its value: the rest of the statement goes on.
UseValue ==
  /\ At("run", "stmt", "value")
  /\ result' = "none"
  /\ UNCHANGED << calls, frames, err, errs, scopes, saved >>

(***************************************************************************)
(* runast_statement: what one statement may do.                            *)
(***************************************************************************)
InStatement(kind) == kind \in Program /\ At("run", "stmt", "none")

\* a statement, or the rest of one, that touches none of this state
PlainStatement ==
  /\ At("run", "stmt", "none")
  /\ result' = "ok"
  /\ UNCHANGED << calls, frames, err, errs, scopes, saved >>

ThrowNew ==
  /\ InStatement("throw")
  /\ result' = "fail"
  /\ UNCHANGED << calls, frames, scopes, saved >>
  /\ \E class \in ThrowClasses : ThrowFmt(class)

Rethrow ==
  /\ InStatement("rethrow")
  /\ result' = "fail"
  /\ UNCHANGED << calls, frames, scopes, saved >>
  /\ \E e \in saved : err' = e /\ Collect(Thrown(errs, e))

\* `return x` where a `return` is visible: returner_cfunc throws its marker
CallReturn ==
  /\ InStatement("return")
  /\ result' = "fail"
  /\ UNCHANGED << calls, frames, scopes, saved >>
  /\ \E m \in ErrIds : Visible(Top.scope, m) /\ err' = m /\ Collect(Thrown(errs, m))

\* ... and where none is.  The message quotes the name with to_debug_string,
\* which is Ö code and needs frames of its own.
NoVariableReturn ==
  /\ InStatement("return")
  /\ NothingVisible(Top.scope)
  /\ result' = "fail"
  /\ UNCHANGED << calls, frames, scopes, saved >>
  /\ ThrowFmt(IF Len(frames) + DebugDepth > StackMax THEN "ValueError"
                                                    ELSE "VariableError")

\* if, or a call of a function that returns nothing: the block runs in a new
\* subscope of its definition scope, which may be any scope a variable reaches
RunInSubscope ==
  /\ InStatement("block")
  /\ RoomForScopes(1)
  /\ \E d \in DOMAIN scopes : scopes' = Append(scopes, SubscopeOf(d))
  /\ calls' = Append(calls, Run(Len(scopes) + 1))
  /\ UNCHANGED << result, frames, err, errs, saved >>

\* block.run scope
RunInScope ==
  /\ InStatement("run")
  /\ \E s \in DOMAIN scopes : calls' = Append(calls, Run(s))
  /\ UNCHANGED << result, frames, err, errs, scopes, saved >>

\* blockobject_runwithreturn up to its blockobject_run, in scope s of ss
RunWithReturn(stack, ss, s) ==
  \E m \in ErrIds :
    /\ Fresh(m)
    /\ scopes' = [ss EXCEPT ![s].ret = m]
    /\ calls' = Append(Append(stack, Ret(s, m)), Run(s))
    /\ Collect([errs EXCEPT ![m] = [class |-> "MarkerError", stack |-> 0]])

InNewSubscope(d) == RunWithReturn(calls, Append(scopes, SubscopeOf(d)), Len(scopes) + 1)
InDefinitionScope(d) == RunWithReturn(calls, scopes, d)
CallWithReturn(d) == InNewSubscope(d)

\* a call of a returning function
CallFunction ==
  /\ InStatement("function")
  /\ RoomForScopes(1) /\ RoomForErrors(1)
  /\ UNCHANGED << result, frames, err, saved >>
  /\ \E d \in DOMAIN scopes : CallWithReturn(d)

\* block.(run_with_return scope)
RunWithReturnInScope ==
  /\ InStatement("run_with_return")
  /\ RoomForErrors(1)
  /\ UNCHANGED << result, frames, err, saved >>
  /\ \E s \in DOMAIN scopes : RunWithReturn(calls, scopes, s)

\* scope.local_vars.set "return" return, as in builtins.ö's switch
SetReturn ==
  /\ InStatement("set_return")
  /\ RoomForErrors(1)
  /\ \E m \in ErrIds, s \in DOMAIN scopes :
       Visible(Top.scope, m) /\ scopes' = [scopes EXCEPT ![s].ret = m]
  /\ result' = "ok"
  /\ UNCHANGED << calls, frames, err, saved >>
  /\ Collect(errs)

\* scope.local_vars.delete "return"
DeleteReturn ==
  /\ InStatement("delete_return")
  /\ \E s \in DOMAIN scopes :
       scopes[s].ret # NoErr /\ scopes' = [scopes EXCEPT ![s].ret = NoErr]
  /\ result' = "ok"
  /\ UNCHANGED << calls, frames, err, saved >>
  /\ Collect(errs)

(***************************************************************************)
(* The rest of blockobject_runwithreturn, once its blockobject_run ended.  *)
(***************************************************************************)
WithoutReturn(s) == [scopes EXCEPT ![s].ret = NoErr]
ReturnLeftIn(s) == scopes
DeleteReturner(s) == WithoutReturn(s)

IsOwnMarker == err = Top.marker
IsAnyMarker == IsMarker(err)
ReturnCalled == IsOwnMarker

ReturnNotCalled ==
  /\ At("ret", "between", "ok")
  /\ Return("fail")
  /\ UNCHANGED << frames, scopes, saved >>
  /\ ThrowFmt("ValueError")

ReturnValue ==
  /\ At("ret", "between", "fail")
  /\ ReturnCalled
  /\ Return("value")
  /\ err' = NoErr
  /\ scopes' = WithoutReturn(Top.scope)
  /\ UNCHANGED << frames, saved >>
  /\ Collect(errs)

OtherError ==
  /\ At("ret", "between", "fail")
  /\ ~ReturnCalled
  /\ Return("fail")
  /\ scopes' = DeleteReturner(Top.scope)
  /\ UNCHANGED << frames, err, saved >>
  /\ Collect(Thrown(errs, err))

\* the scope's local_vars has a key that throws when it is compared with "return":
\* `return` is not deleted, and the marker or the error on its way is forgotten
ReturnerStays ==
  /\ "odd_keys" \in Program
  /\ At("ret", "between", "fail")
  /\ Return("fail")
  /\ UNCHANGED << frames, scopes, saved >>
  /\ \E class \in ThrowClasses : ThrowFmt(class)

(***************************************************************************)
(* catch of builtins.c.                                                    *)
(***************************************************************************)
EnterCatch ==
  /\ InStatement("catch")
  /\ RoomForScopes(2)
  /\ \E d \in DOMAIN scopes : scopes' = Append(scopes, SubscopeOf(d))
  /\ \E class \in CatchClasses :
       calls' = Append(Append(calls, Catch(class)), Run(Len(scopes) + 1))
  /\ UNCHANGED << result, frames, err, errs, saved >>

Matches == IsInstance(err, Top.class)

CatchPassesOn ==
  /\ \/ At("catch", "trying", "ok")
     \/ At("catch", "trying", "fail") /\ ~Matches
     \/ At("catch", "caught", "ok")
     \/ At("catch", "caught", "fail")
  /\ Return(result)
  /\ UNCHANGED << frames, err, errs, scopes, saved >>

Cleared == NoErr
NotCleared == err
ErrAfterCatch == Cleared

\* the second block runs in a new subscope; with [class "name"] the error is
\* kept in a variable of it
CatchCatches ==
  /\ At("catch", "trying", "fail")
  /\ Matches
  /\ Len(scopes) < MaxScopes
  /\ err' = ErrAfterCatch
  /\ result' = "none"
  /\ \E d \in DOMAIN scopes : scopes' = Append(scopes, SubscopeOf(d))
  /\ \/ RoomForErrors(1) /\ saved' = saved \cup {err}
     \/ UNCHANGED saved
  /\ calls' = Append(InPhase("caught"), Run(Len(scopes) + 1))
  /\ UNCHANGED frames
  /\ Collect(errs)

(***************************************************************************)
(* for of builtins.c: one subscope of the body's definition scope for all  *)
(* four blocks.                                                            *)
(***************************************************************************)
EnterFor ==
  /\ InStatement("for")
  /\ RoomForScopes(1) /\ RoomForErrors(2)
  /\ \E d \in DOMAIN scopes : scopes' = Append(scopes, SubscopeOf(d))
  /\ calls' = Append(Append(calls, For(Len(scopes) + 1)), Run(Len(scopes) + 1))
  /\ UNCHANGED << result, frames, err, errs, saved >>

\* the init or the increment block is done: check the condition
ForCondition ==
  /\ At("for", "init", "ok") \/ At("for", "incr", "ok")
  /\ result' = "none"
  /\ UNCHANGED << frames, err, saved >>
  /\ RunWithReturn(InPhase("cond"), scopes, Top.scope)

ForBody ==
  /\ At("for", "cond", "value")
  /\ result' = "none"
  /\ calls' = Append(InPhase("body"), Run(Top.scope))
  /\ UNCHANGED << frames, err, errs, scopes, saved >>

ForIncrement ==
  /\ At("for", "body", "ok")
  /\ result' = "none"
  /\ calls' = Append(InPhase("incr"), Run(Top.scope))
  /\ UNCHANGED << frames, err, errs, scopes, saved >>

\* the condition was false
ForEnds ==
  /\ At("for", "cond", "value")
  /\ Return("ok")
  /\ UNCHANGED << frames, err, errs, scopes, saved >>

\* the condition was neither true nor false
ForNotBool ==
  /\ At("for", "cond", "value")
  /\ Return("fail")
  /\ UNCHANGED << frames, scopes, saved >>
  /\ ThrowFmt(IF Len(frames) + DebugDepth > StackMax THEN "ValueError" ELSE "TypeError")

ForFails ==
  /\ calls # << >>
  /\ Top.kind = "for"
  /\ result = "fail"
  /\ Return("fail")
  /\ UNCHANGED << frames, err, errs, scopes, saved >>
-----------------------------------------------------------------------------
File == StartFile \/ FileDone

Block ==
  \/ BeginStatement \/ TooMuchRecursion \/ NotAnAstNode \/ EndBlock
  \/ EndStatement \/ UseValue

Statement ==
  \/ PlainStatement \/ ThrowNew \/ Rethrow \/ CallReturn \/ NoVariableReturn
  \/ RunInSubscope \/ RunInScope \/ CallFunction \/ RunWithReturnInScope
  \/ SetReturn \/ DeleteReturn \/ EnterCatch \/ EnterFor

Callee ==
  \/ ReturnNotCalled \/ ReturnValue \/ OtherError \/ ReturnerStays
  \/ CatchPassesOn \/ CatchCatches
  \/ ForCondition \/ ForBody \/ ForIncrement \/ ForEnds \/ ForNotBool \/ ForFails

Next == File \/ Block \/ Statement \/ Callee

\* A C function that was returned to does not wait for anything: it goes on.
Resume == result # "none" /\ Next

Spec == Init /\ [][Next]_vars
FairSpec == Spec /\ WF_vars(Resume)
-----------------------------------------------------------------------------
(***************************************************************************)
(* Properties.                                                             *)
(***************************************************************************)

Scopes(ss) ==
  /\ ss \in Seq([chain : SUBSET ScopeIds, ret : ErrIds \cup {NoErr}])
  /\ Len(ss) \in 2 .. MaxScopes
  /\ \A s \in DOMAIN ss : s \in ss[s].chain /\ ss[s].chain \subseteq 1 .. s

\* The state has the expected shape; in particular interp->stack never
\* outgrows its STACK_MAX slots (stack_push, stack.c:14).
TypeOK ==
  /\ calls \in Seq(Activations)
  /\ result \in {"none", "ok", "fail", "value"}
  /\ frames \in Seq(ScopeIds) /\ Len(frames) <= StackMax
  /\ err \in ErrIds \cup {NoErr}
  /\ errs \in [ErrIds -> Errors]
  /\ Scopes(scopes)
  /\ saved \subseteq ErrIds

Executing(a) == a.phase = "stmt"
FramesOf(a) == IF Executing(a) THEN 1 ELSE 0

Balanced(cs, fs) ==
  /\ \A i \in DOMAIN cs :
       /\ cs[i].depth = IF i = 1 THEN 0 ELSE cs[i - 1].depth + FramesOf(cs[i - 1])
       /\ Executing(cs[i]) => /\ cs[i].depth < Len(fs)
                              /\ fs[cs[i].depth + 1] = cs[i].scope
  /\ Len(fs) = IF cs = << >> THEN 0
               ELSE cs[Len(cs)].depth + FramesOf(cs[Len(cs)])

\* Whatever path a statement leaves by, every frame it pushed is popped again:
\* the frames are those of the statements being executed, in the order of the
\* C calls, and each activation still sees the stack depth it was entered with
\* (the pairs of stack_push and stack_pop in block.c and run.c).
StackBalanced == Balanced(calls, frames)

\* interp->err is set exactly while a failure is on its way down the C stack:
\* what errorobject_throw, catch and blockobject_runwithreturn assert.
ErrIffFailing == (err # NoErr) <=> (result = "fail")

\* The limit on frames is a limit on C recursion too: blocks never nest deeper
\* on the C stack than three activations for each frame.
NativeStackBounded == Len(calls) <= 3 * StackMax + 3

\* An error that is thrown again, by the program or by a returning block that
\* lets it pass, keeps the traceback of its first throw (errors.c:249).
FirstTracebackKept ==
  [][\A e \in ErrIds :
        errs[e].stack # 0 /\ errs'[e] # NoError => errs'[e].stack = errs[e].stack]_vars

\* While a returning block runs, the `return` of its scope is its own.
ReturnIsMine ==
  \A i \in DOMAIN calls :
    calls[i].kind = "ret" => scopes[calls[i].scope].ret = calls[i].marker

OwnerAt(i, m) == i \in DOMAIN calls /\ calls[i].kind = "ret" /\ calls[i].marker = m

\* A marker in flight always has a returning block to go to: `return` is never
\* called on behalf of a function that is no longer running.
ReturnFindsOwner == IsMarker(err) => \E i \in DOMAIN calls : OwnerAt(i, err)

\* ... and it gets there: whatever lies between, the value of `return` arrives
\* at the very C frame that called the function it was meant for.
ReturnCompletes ==
  \A m \in ErrIds, i \in 1 .. 3 * StackMax + 3 :
    (err = m /\ OwnerAt(i, m)) ~> (result = "value" /\ Len(calls) = i - 1)

\* Every error that is thrown is caught or reported.
ErrorsSettle == (err # NoErr) ~> (err = NoErr)
=============================================================================
