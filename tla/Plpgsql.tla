------------------------------- MODULE Plpgsql -------------------------------
(***************************************************************************)
(* PL/pgSQL routines: the compiler of ordadb-plpgsql, which turns the      *)
(* lines of a body into jumps in one pass, the machine that runs them, and *)
(* the engine as its host, which saves the database state at the start of  *)
(* a block with an EXCEPTION section.  A routine is checked against what   *)
(* its lines say: see the last section.                                    *)
(***************************************************************************)
EXTENDS Naturals, FiniteSets, SequencesExt

CONSTANTS
    Programs,          \* routine bodies: sequences of lines
    SqlStates,         \* what a statement may fail with
    max_nesting,
    max_instructions,
    max_open_cursors,
    max_steps

VARIABLES
    body,       \* the lines of the routine
    program,    \* what the compiler made of them
    vm,         \* VmState
    host,       \* EnginePlpgsqlHost
    brackets,   \* ghost: the lines that open something, and where it is closed
    visits,     \* ghost: the path from each line to the next that does something
    expected    \* ghost: what the lines say is next

plpgsql == <<body, program, vm, host, brackets, visits, expected>>

\* A line: what it is, a label, matcher or message, and whether it has a condition.
Line(op, arg, cond) == [op |-> op, arg |-> arg, cond |-> cond]

Unset == 0
NoLabel == ""
Iterators == {"query_for", "integer_for", "foreach"}
Loops == Iterators \union {"loop", "while"}

-----------------------------------------------------------------------------
(***************************************************************************)
(* The compiler.  c is its local state: the instructions so far, open      *)
(* control structures and blocks, handlers, pending label, error.          *)
(* An instruction knows its line, which only the last section looks at.    *)
(***************************************************************************)
NoCode == [code |-> <<>>, controls |-> <<>>, blocks |-> <<>>, handlers |-> <<>>,
           label |-> NoLabel, error |-> ""]

Here(c) == Len(c.code) + 1
emit(c, op, target, line) ==
    [c EXCEPT !.code = Append(@, [op |-> op, target |-> target, line |-> line])]
patch_target(c, at, target) == IF at = Unset THEN c ELSE [c EXCEPT !.code[at].target = target]
PatchAll(c, jumps, target) ==
    [c EXCEPT !.code = [at \in DOMAIN @ |->
        IF at \in jumps THEN [@[at] EXCEPT !.target = target] ELSE @[at]]]
Rejected(c) == [c EXCEPT !.error = "42601"]
Limited(c)  == [c EXCEPT !.error = "54001"]
ensure_nesting(c, frames, next) == IF Len(frames) >= max_nesting THEN Limited(c) ELSE next

\* A frame of controls.
Frame(type, label, start) ==
    [type |-> type, label |-> label, start |-> start, pending_false |-> Unset,
     end_jumps |-> {}, branch_started |-> FALSE, exits |-> {}, continues |-> {}]
Top(frames) == Len(frames)
OnTop(frames, types) == frames # <<>> /\ Last(frames).type \in types
PushControl(c, frame) == [c EXCEPT !.controls = Append(@, frame)]

InBlock(c)      == c.blocks # <<>>
AtBlockLevel(c) == Len(c.controls) = Last(c.blocks).control_depth

compile_label(c, line) ==
    IF c.label # NoLabel THEN Rejected(c) ELSE [c EXCEPT !.label = line.arg]

compile_begin(c, line) ==
    ensure_nesting(c, c.blocks,
        [c EXCEPT !.label = NoLabel,
                  !.blocks = Append(@, [label |-> c.label, protected_start |-> Here(c),
                                        control_depth |-> Len(c.controls), protected_end |-> Unset,
                                        skip_handlers |-> Unset, end_jumps |-> {},
                                        handler_indexes |-> {}, exits |-> {},
                                        in_handlers |-> FALSE])])

compile_exception(c, i) ==
    IF ~InBlock(c) \/ Last(c.blocks).in_handlers \/ ~AtBlockLevel(c) THEN Rejected(c)
    ELSE LET skip == emit(c, "Jump", Unset, i) IN
         [skip EXCEPT !.blocks[Top(c.blocks)] =
             [@ EXCEPT !.in_handlers = TRUE, !.protected_end = Here(c), !.skip_handlers = Here(c)]]

\* WHEN condition THEN in an EXCEPTION section.
compile_handler(c, line, i) ==
    LET block == Last(c.blocks)
        jump  == IF block.handler_indexes = {} THEN c
                 ELSE [emit(c, "Jump", Unset, i)
                           EXCEPT !.blocks[Top(c.blocks)].end_jumps = @ \union {Here(c)}]
    IN IF \E h \in block.handler_indexes : c.handlers[h].matcher = "others" THEN Rejected(c)
       ELSE [jump EXCEPT
                !.handlers = Append(@, [protected_start |-> block.protected_start,
                                        protected_end |-> block.protected_end,
                                        matcher |-> line.arg, target |-> Here(jump)]),
                !.blocks[Top(c.blocks)].handler_indexes = @ \union {Len(c.handlers) + 1}]

compile_end(c, line) ==
    IF ~InBlock(c) THEN Rejected(c)
    ELSE LET block == Last(c.blocks)
             closed == PatchAll(patch_target(c, block.skip_handlers, Here(c)),
                                block.end_jumps \union block.exits, Here(c))
         IN IF \/ ~AtBlockLevel(c)
               \/ line.arg # NoLabel /\ line.arg # block.label
               \/ block.in_handlers /\ block.handler_indexes = {}
            THEN Rejected(c)
            ELSE [closed EXCEPT !.blocks = Front(@)]

\* IF, and after it ELSIF, ELSE and END IF.
compile_if(c, i) ==
    ensure_nesting(c, c.controls,
        PushControl(emit(c, "JumpIfFalse", Unset, i),
                    [Frame("if", NoLabel, Unset) EXCEPT !.pending_false = Here(c)]))

\* A jump from the end of a branch over the rest, and the false jump of the condition before it
\* ends here.
NextBranch(c, i) ==
    LET frame == Last(c.controls)
        jump  == emit(c, "Jump", Unset, i)
        next  == patch_target(jump, frame.pending_false, Here(jump))
    IN [next EXCEPT !.controls[Top(c.controls)] =
           [@ EXCEPT !.end_jumps = @ \union {Here(c)}, !.pending_false = Unset]]

Condition(c, i) ==
    [emit(c, "JumpIfFalse", Unset, i) EXCEPT !.controls[Top(c.controls)] =
        [@ EXCEPT !.pending_false = Here(c), !.branch_started = TRUE]]

compile_elsif(c, i) ==
    IF ~OnTop(c.controls, {"if"}) THEN Rejected(c) ELSE Condition(NextBranch(c, i), i)

compile_else(c, i) ==
    IF \/ OnTop(c.controls, {"if"})
       \/ OnTop(c.controls, {"case"}) /\ Last(c.controls).branch_started
    THEN NextBranch(c, i)
    ELSE Rejected(c)

compile_case(c) == ensure_nesting(c, c.controls, PushControl(c, Frame("case", NoLabel, Unset)))

compile_when(c, i) ==
    IF ~OnTop(c.controls, {"case"}) THEN Rejected(c)
    ELSE Condition(IF Last(c.controls).branch_started THEN NextBranch(c, i) ELSE c, i)

compile_end_if(c) ==
    IF ~OnTop(c.controls, {"if"}) THEN Rejected(c)
    ELSE LET frame == Last(c.controls) IN
         [PatchAll(patch_target(c, frame.pending_false, Here(c)), frame.end_jumps, Here(c))
             EXCEPT !.controls = Front(@)]

compile_end_case(c) ==
    IF ~OnTop(c.controls, {"case"}) \/ ~Last(c.controls).branch_started THEN Rejected(c)
    ELSE LET frame == Last(c.controls) IN
         [PatchAll(patch_target(c, frame.pending_false, Here(c)), frame.end_jumps, Here(c))
             EXCEPT !.controls = Front(@)]

\* LOOP emits nothing, WHILE a conditional jump, FOR and FOREACH the start of the iteration.
compile_loop(c, line, i) ==
    LET frame == Frame(line.op, c.label, Here(c))
        taken == [c EXCEPT !.label = NoLabel]
    IN ensure_nesting(c, c.controls,
           CASE line.op = "loop"  -> PushControl(taken, frame)
             [] line.op = "while" -> PushControl(emit(taken, "JumpIfFalse", Unset, i),
                                                 [frame EXCEPT !.pending_false = Here(c)])
             [] OTHER             -> PushControl(emit(taken, "ForStart", Unset, i), frame))

\* EXIT and CONTINUE: a loop with the label if there is one, else for EXIT a block.
LoopFrames(c, label) ==
    {f \in DOMAIN c.controls :
        c.controls[f].type \in Loops /\ (label # NoLabel => c.controls[f].label = label)}
BlockFrames(c, label) == {b \in DOMAIN c.blocks : c.blocks[b].label = label}

compile_loop_control(c, line, i) ==
    LET tested == IF line.cond THEN emit(c, "JumpIfFalse", Here(c) + 2, i) ELSE c
        jump   == emit(tested, "Jump", Unset, i)
        loops  == LoopFrames(c, line.arg)
        blocks == BlockFrames(c, line.arg)
    IN CASE loops # {} /\ line.op = "exit" ->
              [jump EXCEPT !.controls[Max(loops)].exits = @ \union {Here(tested)}]
         [] loops # {} /\ line.op = "continue" ->
              IF c.controls[Max(loops)].type \in Iterators
              THEN [jump EXCEPT !.controls[Max(loops)].continues = @ \union {Here(tested)}]
              ELSE emit(tested, "Jump", c.controls[Max(loops)].start, i)
         [] loops = {} /\ line.op = "exit" /\ line.arg # NoLabel /\ blocks # {} ->
              [jump EXCEPT !.blocks[Max(blocks)].exits = @ \union {Here(tested)}]
         [] OTHER -> Rejected(c)

compile_end_loop(c, line, i) ==
    IF \/ ~OnTop(c.controls, Loops)
       \/ line.arg # NoLabel /\ line.arg # Last(c.controls).label
    THEN Rejected(c)
    ELSE LET frame == Last(c.controls)
             next  == IF frame.type \in Iterators THEN emit(c, "ForNext", frame.start, i)
                      ELSE emit(c, "Jump", frame.start, i)
             false == IF frame.type = "loop" THEN {} ELSE {frame.start}
         IN [PatchAll(PatchAll(next, frame.exits \union false, Here(next)),
                      frame.continues, Here(c))
                EXCEPT !.controls = Front(@)]

\* Statements are one instruction each.
compile_statement(c, line, i) ==
    IF InBlock(c) /\ Last(c.blocks).in_handlers /\ Last(c.blocks).handler_indexes = {}
    THEN Rejected(c)
    ELSE emit(c, line.op, Unset, i)

CompileLine(c, i) ==
    LET line == body[i]
        next ==
            CASE line.op = "label"     -> compile_label(c, line)
              [] c.label # NoLabel /\ line.op \notin Loops \union {"begin", "label"} -> Rejected(c)
              [] line.op = "begin"     -> compile_begin(c, line)
              [] line.op = "exception" -> compile_exception(c, i)
              [] line.op = "when" /\ InBlock(c) /\ Last(c.blocks).in_handlers /\ AtBlockLevel(c) ->
                    compile_handler(c, line, i)
              [] line.op = "end"       -> compile_end(c, line)
              [] line.op = "if"        -> compile_if(c, i)
              [] line.op = "elsif"     -> compile_elsif(c, i)
              [] line.op = "else"      -> compile_else(c, i)
              [] line.op = "end_if"    -> compile_end_if(c)
              [] line.op = "case"      -> compile_case(c)
              [] line.op = "when" /\ ~(InBlock(c) /\ Last(c.blocks).in_handlers /\ AtBlockLevel(c)) ->
                    compile_when(c, i)
              [] line.op = "end_case"  -> compile_end_case(c)
              [] line.op \in Loops     -> compile_loop(c, line, i)
              [] line.op \in {"exit", "continue"} -> compile_loop_control(c, line, i)
              [] line.op = "end_loop"  -> compile_end_loop(c, line, i)
              [] OTHER                 -> compile_statement(c, line, i)
    IN IF c.error # "" THEN c
       ELSE IF Len(next.code) > max_instructions THEN Limited(next) ELSE next

compile ==
    LET c == FoldLeftDomain(CompileLine, NoCode, body)
        whole == emit(c, "Checkpoint", Unset, Len(body) + 1)
    IN CASE c.error # "" -> c
         [] c.error = "" /\ (c.controls # <<>> \/ c.label # NoLabel \/ c.blocks # <<>>) -> Rejected(c)
         [] OTHER -> IF Len(whole.code) > max_instructions THEN Limited(whole) ELSE whole

-----------------------------------------------------------------------------
(***************************************************************************)
(* The host keeps a copy of the database state for every active block with *)
(* an EXCEPTION section; work, the lines that changed it, is that state.   *)
(***************************************************************************)
begin_exception_block(h) == [h EXCEPT !.exception_states = Append(@, h.work)]

\* The innermost blocks end, until so many are left.
commit_exception_block(h, left) == [h EXCEPT !.exception_states = SubSeq(@, 1, left)]

rollback_exception_block(h, left) ==
    IF left = Len(h.exception_states) THEN h
    ELSE [h EXCEPT !.work = h.exception_states[left + 1],
                   !.exception_states = SubSeq(@, 1, left)]

(***************************************************************************)
(* The machine.  m is the machine with its host: every turn of the loop in *)
(* resume starts with leaving and entering exception regions.              *)
(***************************************************************************)
exception_regions == {<<h.protected_start, h.protected_end>> : h \in Range(program.handlers)}

Running == vm.status = "running"
Instruction == program.code[vm.ip]

leave_regions(m) ==
    LET regions == m.vm.active_exception_regions
        left == Max({0} \union {k \in DOMAIN regions : regions[k][2] > m.vm.ip})
    IN [vm   |-> [m.vm EXCEPT !.active_exception_regions = SubSeq(@, 1, left)],
        host |-> commit_exception_block(m.host, left)]

enter_regions(m) ==
    LET entered == {r \in exception_regions \ Range(m.vm.active_exception_regions) :
                       r[1] = m.vm.ip}
        enter(n, region) ==
            [vm   |-> [n.vm EXCEPT !.active_exception_regions = Append(@, region)],
             host |-> begin_exception_block(n.host)]
    IN FoldLeft(enter, m, SetToSortSeq(entered, LAMBDA r, s : r[2] > s[2]))

\* The state at an instruction: loops it is past are forgotten.
Turn ==
    enter_regions(leave_regions(
        [vm   |-> [vm EXCEPT !.loops = {l \in @ : vm.ip < l.end}, !.steps = @ + 1],
         host |-> host]))

Matches(matcher, error) ==
    IF matcher = "others" THEN error \notin {"57014", "P0004"} ELSE matcher = error

\* The innermost block whose handlers know the error, and there the first of them.
Handlers(m, error) ==
    {h \in DOMAIN program.handlers :
        LET handler == program.handlers[h] IN
        /\ handler.protected_start <= m.vm.ip /\ m.vm.ip < handler.protected_end
        /\ Matches(handler.matcher, error)}

PreferredTo(h, g) ==
    LET x == program.handlers[h]
        y == program.handlers[g]
    IN \/ x.protected_start > y.protected_start
       \/ x.protected_start = y.protected_start /\ x.protected_end < y.protected_end
       \/ x.protected_start = y.protected_start /\ x.protected_end = y.protected_end /\ h < g

Stopped(m, status, error) == [m EXCEPT !.vm.status = status, !.vm.error = error]

\* Mutant: only the innermost region is rolled back.
handle_error_once(m, error) ==
    LET candidates == Handlers(m, error)
        h == CHOOSE h \in candidates : \A g \in candidates \ {h} : PreferredTo(h, g)
        left == Len(m.vm.active_exception_regions) - 1
    IN IF candidates = {}
       THEN Stopped([m EXCEPT !.host = rollback_exception_block(@, 0),
                              !.vm.active_exception_regions = <<>>], "failed", error)
       ELSE [vm   |-> [m.vm EXCEPT !.active_exception_regions = SubSeq(@, 1, left),
                                   !.loops = {}, !.cursors = {}, !.active_exception = error,
                                   !.ip = program.handlers[h].target],
             host |-> rollback_exception_block(m.host, left)]

handle_error(m, error) ==
    LET candidates == Handlers(m, error)
        h == CHOOSE h \in candidates : \A g \in candidates \ {h} : PreferredTo(h, g)
        selected == <<program.handlers[h].protected_start, program.handlers[h].protected_end>>
        regions  == m.vm.active_exception_regions
        left     == Max({k \in DOMAIN regions : regions[k] = selected}) - 1
        all      == [m EXCEPT !.host = rollback_exception_block(@, 0),
                              !.vm.active_exception_regions = <<>>]
    IN CASE candidates = {} -> Stopped(all, "failed", error)
         [] candidates # {} /\ selected \notin Range(regions) -> Stopped(all, "failed", "XX000")
         [] OTHER ->
              [vm   |-> [m.vm EXCEPT !.active_exception_regions = SubSeq(@, 1, left),
                                     !.loops = {}, !.cursors = {}, !.active_exception = error,
                                     !.ip = program.handlers[h].target],
               host |-> rollback_exception_block(m.host, left)]

\* The routine is over: what is active is committed, and its value or rows returned.
Complete(m) ==
    Stopped([m EXCEPT !.host = commit_exception_block(@, 0), !.vm.active_exception_regions = <<>>],
            "complete", "")

Continue(m, ip) ==
    IF ip > Len(program.code) THEN Complete([m EXCEPT !.vm.ip = ip]) ELSE [m EXCEPT !.vm.ip = ip]

-----------------------------------------------------------------------------
(***************************************************************************)
(* What the lines say.  Brackets are matched by counting, a loop or block  *)
(* is the lines between two brackets, and a path leads from a line to the  *)
(* next one that does something.                                           *)
(***************************************************************************)
Opening == Loops \union {"if", "case", "begin"}
Closing == {"end_if", "end_case", "end_loop", "end"}
Statements ==
    {"sql", "commit", "open", "fetch", "close", "raise", "reraise", "notice", "return"}
ClosedBy(op) ==
    CASE op = "if" -> "end_if" [] op = "case" -> "end_case" [] op = "begin" -> "end"
      [] op \in Loops -> "end_loop"

Op(i) == body[i].op
Lines(ops) == {i \in DOMAIN body : Op(i) \in ops}

\* The closing line of each bracket, the next line after which fewer are open, and the
\* brackets around each line.
Brackets ==
    LET Before(ops, i) == Cardinality({j \in Lines(ops) : j <= i})
        open   == [i \in DOMAIN body |-> Len(body) + Before(Opening, i) - Before(Closing, i)]
        closer == [i \in Lines(Opening) |->
                      Min({j \in DOMAIN body : i < j /\ open[j] < open[i]} \union {Len(body) + 1})]
    IN [closer |-> closer,
        around |-> [k \in DOMAIN body |-> {i \in Lines(Opening) : i < k /\ k < closer[i]}]]

CloserOf(i) == brackets.closer[i]
OpenerOf(j) == CHOOSE i \in Lines(Opening) : CloserOf(i) = j
Around(k) == brackets.around[k]
\* The structure a part belongs to: EXCEPTION and the handlers after it to a block, the
\* others to the innermost control structure, 0 if there is none.
PartLines == Lines({"elsif", "else", "when", "exception"})
Owner(k) ==
    LET opener  == Max({0} \union Around(k))
        control == Max({0} \union (Around(k) \intersect Lines(Opening \ {"begin"})))
        handles == \E x \in Lines({"exception"}) : x <= k /\ Max({0} \union Around(x)) = opener
    IN IF handles THEN opener ELSE control
Parts(i) == {k \in PartLines : Owner(k) = i}
LabelOf(i) == IF i > 1 /\ Op(i - 1) = "label" THEN body[i - 1].arg ELSE NoLabel

\* Where EXIT and CONTINUE lead: a loop if there is one, else EXIT leaves a block.
Targets(k) ==
    LET named == {i \in Around(k) : body[k].arg = NoLabel \/ LabelOf(i) = body[k].arg}
        loops == {i \in named : Op(i) \in Loops}
    IN IF loops = {} /\ Op(k) = "exit" /\ body[k].arg # NoLabel
       THEN {i \in named : Op(i) = "begin"} ELSE loops

ExceptionOf(b) == {k \in Parts(b) : Op(k) = "exception"}
HandlersOf(b)  == {k \in Parts(b) : Op(k) = "when"}
Handles(b, i)  == i < CloserOf(b) /\ \E k \in ExceptionOf(b) : k < i
Guarded(b, i)  == b <= i /\ \E k \in ExceptionOf(b) : i < k

PartIsPlaced(k) ==
    LET o == Owner(k)
        before == {j \in Parts(o) : j < k}
    IN CASE Op(k) = "elsif"     -> Op(o) = "if"
         [] Op(k) = "else"      -> Op(o) = "if" \/ (Op(o) = "case" /\ before # {})
         [] Op(k) = "exception" -> Op(o) = "begin" /\ before = {}
         [] Op(k) = "when"      ->
              \/ Op(o) = "case"
              \/ /\ Op(o) = "begin" /\ before # {}
                 /\ \A j \in before : body[j].arg # "others"

IsWellNested ==
    /\ \A i \in Lines(Opening) : CloserOf(i) <= Len(body) /\ Op(CloserOf(i)) = ClosedBy(Op(i))
    /\ \A j \in Lines(Closing) :
           /\ \E i \in Lines(Opening) : CloserOf(i) = j
           /\ body[j].arg \in {NoLabel, LabelOf(OpenerOf(j))}
    /\ \A k \in PartLines : Owner(k) # 0 /\ PartIsPlaced(k)
    /\ \A i \in Lines({"case"}) : HandlersOf(i) # {}
    /\ \A b \in Lines({"begin"}) : \A k \in ExceptionOf(b) :
           /\ HandlersOf(b) # {}
           /\ \A j \in Lines(Statements) :
                  k < j /\ j < Min(HandlersOf(b)) => Max(Around(j) \intersect Lines({"begin"})) # b
    /\ \A k \in Lines({"label"}) :
           k < Len(body) /\ Op(k + 1) \in Loops \union {"begin"}
    /\ \A k \in Lines({"exit", "continue"}) : Targets(k) # {}

\* The compiler also takes an ELSE that is not the last part, statements before the first
\* WHEN of a CASE, control structures between EXCEPTION and its first WHEN, and ELSE, ELSIF
\* and WHEN inside a block in a branch.
IsRegular ==
    /\ \A k \in Lines({"exception"}) : Op(k + 1) = "when"
    /\ \A k \in PartLines : Owner(k) = Max(Around(k)) /\ (Op(k) = "else" => k = Max(Parts(Owner(k))))
    /\ \A i \in Lines({"case"}) : Op(i + 1) = "when"

\* The lines a path visits, and the one that does something at its end.  Lines that only
\* mark a place are passed; a part that is reached from above ends its structure.
Visits ==
    LET n == Len(body) + 1
        path[i \in 1..n] ==
            CASE i = n -> <<i>>
              [] i < n /\ Op(i) = "case" -> <<i, i + 1>>
              [] i < n /\ Op(i) \in {"label", "begin", "end", "end_if", "end_case", "loop"} ->
                   <<i>> \o path[i + 1]
              [] i < n /\ Op(i) \in {"elsif", "else", "when", "exception"} ->
                   <<i>> \o path[CloserOf(Max(Around(i)))]
              [] OTHER -> <<i>>
    IN path

\* The blocks a path leaves and enters.
Entered(blocks, line, work) ==
    LET within == SelectSeq(blocks, LAMBDA e : Guarded(e.block, line)) IN
    IF Op(line) = "begin" /\ ExceptionOf(line) # {}
    THEN Append(within, [block |-> line, work |-> work]) ELSE within

Follow(e, line) ==
    LET path == visits[line]
        enter(blocks, i) == IF i > Len(body) THEN <<>> ELSE Entered(blocks, i, e.work)
    IN [e EXCEPT !.line = Last(path),
                 !.blocks = FoldLeft(enter, @, path),
                 !.caught = SelectSeq(@, LAMBDA c : Handles(c.block, Last(path)))]

\* An error goes to the innermost block around the line that handles it.
Raised(e, error) ==
    LET able(b) == {k \in HandlersOf(b) : Matches(body[k].arg, error)}
        blocks == {k \in DOMAIN e.blocks : able(e.blocks[k].block) # {}}
        entry == e.blocks[Max(blocks)]
        iterations == {i \in Around(entry.block) : Op(i) \in Iterators}
        handled == [e EXCEPT !.work = entry.work,
                             !.caught = Append(@, [block |-> entry.block, error |-> error]),
                             !.known = @ /\ iterations = {} /\ e.cursors = {}]
    IN IF blocks = {} THEN [e EXCEPT !.end = "failed"]
       ELSE Follow(handled, Min(able(entry.block)) + 1)

\* What follows a line that ends so: the next part whose condition is to be tested, or the end.
AfterFalse(e) ==
    LET i == e.line
        opener == IF Op(i) = "if" THEN i ELSE Max(Around(i))
        later  == {j \in Parts(opener) : i < j}
    IN IF later = {} THEN Follow(e, CloserOf(opener))
       ELSE IF Op(Min(later)) = "else" THEN Follow(e, Min(later) + 1)
       ELSE [e EXCEPT !.line = Min(later)]

AfterJump(e) ==
    LET i == e.line
        target == Max(Targets(i))
    IN CASE Op(i) = "end_loop" -> Follow(e, OpenerOf(i))
         [] Op(i) = "exit"     -> Follow(e, CloserOf(target) + 1)
         [] OTHER -> Follow(e, IF Op(target) \in Iterators THEN CloserOf(target) ELSE target)

Says(e, outcome) ==
    LET i == e.line
        next == Follow(e, i + 1)
    IN CASE outcome = "next" -> next
         [] outcome = "true" -> IF Op(i) \in {"exit", "continue"} THEN e ELSE next
         [] outcome = "false" ->
              IF Op(i) = "while" THEN Follow(e, CloserOf(i) + 1)
              ELSE IF Op(i) \in {"exit", "continue"} THEN next
              ELSE AfterFalse(e)
         [] outcome = "row"  -> IF Op(i) = "end_loop" THEN Follow(e, OpenerOf(i) + 1) ELSE next
         [] outcome = "none" -> IF Op(i) = "end_loop" THEN next ELSE Follow(e, CloserOf(i) + 1)
         [] outcome = "jump" -> AfterJump(e)
         [] outcome = "return"  -> [e EXCEPT !.end = "complete"]
         [] outcome = "stopped" -> [e EXCEPT !.end = "stopped"]
         [] OTHER -> Raised(e, outcome)

-----------------------------------------------------------------------------
(***************************************************************************)
(* The steps: one instruction each.                                        *)
(***************************************************************************)
Starts == [line |-> 0, blocks |-> <<>>, caught |-> <<>>, work |-> <<>>, notices |-> <<>>,
           cursors |-> {}, known |-> TRUE, end |-> ""]

PlpgsqlInit ==
    /\ body \in Programs
    /\ program = NoCode
    /\ brackets = <<>> /\ visits = <<>>
    /\ vm = [ip |-> 1, steps |-> 0, loops |-> {}, cursors |-> {}, active_exception |-> "0Z002",
             active_exception_regions |-> <<>>, error |-> "", status |-> "source"]
    /\ host = [work |-> <<>>, pending_notices |-> <<>>, exception_states |-> <<>>]
    /\ expected = Starts

\* The routine is called: its body is compiled, and a machine made for the program.
Compile ==
    /\ vm.status = "source" /\ UNCHANGED <<body, host>>
    /\ program' = compile
    /\ brackets' = Brackets
    /\ visits' = IF program'.error = "" /\ IsWellNested' /\ IsRegular' THEN Visits' ELSE <<>>
    /\ vm' = [vm EXCEPT !.status = IF visits' = <<>> THEN "rejected" ELSE "running"]
    /\ expected' = IF visits' = <<>> THEN Starts ELSE Follow(Starts, 1)'

Of(op) == Running /\ vm.steps < max_steps /\ Instruction.op = op

\* The machine comes to m, and the line that e expects has ended so.
Then(m, e, outcome) ==
    /\ vm' = m.vm /\ host' = m.host
    /\ expected' = Says(e, outcome)
    /\ UNCHANGED <<body, program, brackets, visits>>

CurrentLine == Instruction.line
Advance(m) == Continue(m, vm.ip + 1)
Fails(m, error) == Then(handle_error(m, error), expected, error)

\* The expressions, the statement or the rows of the line fail.
FailsAnyhow(m) == \E error \in SqlStates : Fails(m, error)

\* Jumps between the branches of IF and CASE and over handlers are on no line's account.
Jump ==
    /\ Of("Jump")
    /\ LET m == Continue(Turn, Instruction.target)
           left == {k \in DOMAIN expected.blocks : Max(Targets(CurrentLine)) < expected.blocks[k].block}
           \* CONTINUE of WHILE and LOOP goes back without leaving the regions inside.
           stays == /\ Op(CurrentLine) = "continue" /\ Op(Max(Targets(CurrentLine))) \notin Iterators
                    /\ left # {}
       IN IF Op(CurrentLine) \in {"exit", "continue", "end_loop"}
          THEN Then(m, [expected EXCEPT !.known = @ /\ ~stays], "jump")
          ELSE /\ vm' = m.vm /\ host' = m.host /\ UNCHANGED <<body, program, brackets, visits, expected>>

JumpIfFalse ==
    /\ Of("JumpIfFalse")
    /\ \/ Then(Advance(Turn), expected, "true")
       \/ Then(Continue(Turn, Instruction.target), expected, "false")
       \/ FailsAnyhow(Turn)

\* A statement that fails may leave a part of what it does.
ExecuteSql ==
    /\ Of("sql")
    /\ LET m == [Turn EXCEPT !.host.work = Append(@, CurrentLine)] IN
       \/ Then(Advance(m), [expected EXCEPT !.work = Append(@, CurrentLine)], "next")
       \/ FailsAnyhow(m)

\* COMMIT in a procedure: ensure_transaction_boundary_ready.
TransactionBoundary ==
    /\ Of("commit")
    /\ LET queries == {l \in Turn.vm.loops : l.op = "query_for"}
           stale == {l \in queries : program.code[l.start].line \notin Around(CurrentLine)}
           e == [expected EXCEPT !.known = @ /\ stale = {}]
       IN IF Turn.vm.active_exception_regions = <<>> /\ queries = {} /\ vm.cursors = {}
          THEN Then(Advance(Turn), e, "next") \/ FailsAnyhow(Turn)
          ELSE Then(handle_error(Turn, "2D000"), e, "2D000")

Cursor == body[CurrentLine].arg

OpenCursor ==
    /\ Of("open")
    /\ IF Cursor \in vm.cursors THEN Fails(Turn, "42P03")
       ELSE IF Cardinality(vm.cursors) >= max_open_cursors THEN Fails(Turn, "54000")
       ELSE \/ Then(Advance([Turn EXCEPT !.vm.cursors = @ \union {Cursor}]),
                    [expected EXCEPT !.cursors = @ \union {Cursor}], "next")
            \/ FailsAnyhow(Turn)

\* FETCH and MOVE.
FetchCursor ==
    /\ Of("fetch")
    /\ IF Cursor \in vm.cursors
       THEN Then(Advance(Turn), expected, "next") \/ FailsAnyhow(Turn)
       ELSE Fails(Turn, "34000")

CloseCursor ==
    /\ Of("close")
    /\ IF Cursor \in vm.cursors
       THEN Then(Advance([Turn EXCEPT !.vm.cursors = @ \ {Cursor}]),
                 [expected EXCEPT !.cursors = @ \ {Cursor}], "next")
       ELSE Fails(Turn, "34000")

\* RAISE EXCEPTION, and RAISE alone: the error that was handled last.
Raise == Of("raise") /\ (Fails(Turn, body[CurrentLine].arg) \/ FailsAnyhow(Turn))

Reraise ==
    /\ Of("reraise")
    /\ LET error == vm.active_exception
           meant == IF expected.caught = <<>> THEN "0Z002" ELSE Last(expected.caught).error
       IN Then(handle_error(Turn, error), [expected EXCEPT !.known = @ /\ error = meant], error)

RaiseNotice ==
    /\ Of("notice")
    /\ \/ Then(Advance([Turn EXCEPT !.host.pending_notices = Append(@, CurrentLine)]),
               [expected EXCEPT !.notices = Append(@, CurrentLine)], "next")
       \/ FailsAnyhow(Turn)

ForStart ==
    /\ Of("ForStart")
    /\ LET loop == [start |-> vm.ip, end |-> Instruction.target, op |-> Op(CurrentLine)]
           others == {l \in Turn.vm.loops : l.start # vm.ip}
       IN \/ Then(Advance([Turn EXCEPT !.vm.loops = others \union {loop}]), expected, "row")
          \/ Then(Continue(Turn, Instruction.target), expected, "none")
          \/ FailsAnyhow(Turn)

ForNext ==
    /\ Of("ForNext")
    /\ LET start == Instruction.target
           state == {l \in Turn.vm.loops : l.start = start}
       IN IF state = {} THEN Fails(Turn, "XX000")
          ELSE \/ Then(Continue(Turn, start + 1), expected, "row")
               \/ Then(Advance([Turn EXCEPT !.vm.loops = @ \ state]), expected, "none")
               \/ FailsAnyhow(Turn)

Return == Of("return") /\ (Then(Complete(Turn), expected, "return") \/ FailsAnyhow(Turn))

Checkpoint == Of("Checkpoint") /\ Then(Advance(Turn), expected, "return")

\* The step limit and a cancellation stop the machine where it is.
StepLimit ==
    Running /\ vm.steps >= max_steps /\ Then(Stopped(Turn, "failed", "54001"), expected, "stopped")

Cancelled ==
    /\ Running /\ vm.steps < max_steps
    /\ Then(Stopped(Turn, "failed", "57014"), expected, "stopped")

PlpgsqlNext ==
    \/ Compile \/ Jump \/ JumpIfFalse \/ ExecuteSql \/ TransactionBoundary
    \/ OpenCursor \/ FetchCursor \/ CloseCursor
    \/ Raise \/ Reraise \/ RaiseNotice
    \/ ForStart \/ ForNext \/ Return \/ Checkpoint \/ StepLimit \/ Cancelled

-----------------------------------------------------------------------------
\* Routines do what their lines say.  The compiler takes exactly the bodies whose
\* brackets, labels and handlers fit, unless a limit is met first; the machine then comes
\* from line to line as IF, CASE, loops, EXIT, CONTINUE and RETURN tell it, an error is handled
\* by the innermost block that has a handler for it, what was done since that block began, and
\* nothing else, is undone, and no block is left open at the end.
RunsAsWritten ==
    /\ vm.steps = 0 /\ vm.status # "source" /\ program.error # "54001" => (program.error = "" <=> IsWellNested)
    /\ expected.known /\ vm.status \notin {"source", "rejected"} =>
          /\ vm.status # "failed" => host.work = expected.work
          /\ host.pending_notices = expected.notices
          /\ Running =>
                \/ Instruction.line = expected.line
                \/ Instruction.op = "Jump" /\ Op(CurrentLine) \in {"else", "elsif", "when", "exception"}
          /\ ~Running => expected.end = (IF expected.end = "stopped" THEN "stopped" ELSE vm.status)
          /\ ~Running /\ expected.end # "stopped" => host.exception_states = <<>>
=============================================================================
