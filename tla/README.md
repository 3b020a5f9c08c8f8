# A TLA+ model of SapirCompiler

SapirCompiler (`src/SapirCompiler/`, C) compiles a small imperative language
with functions, loops and console input and output to 8086 assembly. This
directory models it from the text of a program to what the emitted code prints,
checks the models with TLC on small instances and proves the central facts with
TLAPS.

## Inventory

A compilation is one sequential run of `main` (`Program.c`) and `compile`
(`Compiler.c`). Nothing runs concurrently and nothing is persisted: what is
hard is the *order* in which state shared by the phases (global tables, the
worklist, the register table, the stack of the compiled program) is written and
read, and the sequences of legal constructs that reach a state no one tried.

| component (files) | state | operations | interacts with | hard | correct when |
|---|---|---|---|---|---|
| Pipeline (`Program.c`, `Compiler.c`, `ErrorHandler.c`) | `current_error_state` | `main`, `compile`, one handler per error | calls every phase, asks the error state between them | a later error overwrites an earlier one | no phase runs after an error that should stop it |
| Lexer (`Lexer.c`, `LexerFSM.c`, `LexerFsmHelper.c`, `Token.c`) | the current token, its length, the machine's state | `tokenize`, `next_state`, the fill functions | gives the parser a list of tokens | the longest token, keywords that are prefixes of identifiers | every lexeme becomes its token, none is cut or written past the buffer |
| Parser tables (`ParserTable*.c`) | rules, item sets, FIRST and FOLLOW, the action and goto tables | closures, `compute_follow`, table filling | gives `Parser.c` its tables | fixed points, conflicts that overwrite one another | the tables are the SLR tables of the grammar |
| Parser (`Parser.c`, `SyntaxTree.c`) | the state stack and the tree stack | shift, reduce, accept | reads tokens and tables, builds the tree | both stacks in step, error recovery | it accepts the grammar's programs and builds their tree |
| Symbol table (`SymbolTable.c`) | current scope, symbol map, temporaries | enter and exit scope, add, find | used by the semantic analysis, lowering and code generation | shadowing: identifiers are renamed | a name means its innermost declaration |
| Semantic analysis (`Sementic.c`) | the current function, scopes | one handler per nonterminal | reads the tree, fills the symbol table | errors deep in the tree | it accepts exactly the well-typed programs |
| Lowering (`IR_CFG.c`) | the blocks and their edges, the current block, the frame of each open function | `ir_visitor`, one visitor per nonterminal | reads the tree and symbols, gives a graph to the optimiser | every construct leaves its jumps, edges and current block consistent; nested frames | the graph has the program's meaning and every path it can take |
| Liveness (`IR_Liveness.c`) | the queue `Blocks`, `live_in`, `live_out`, flags `is_live` | `computeLiveness`, one handler per opcode, `remove_dead_code` | changes the graph in place | a worklist over loops and calls | the least solution; nothing needed is deleted |
| Code generation (`CodeGeneration.c`) | `available[]`, the registers' owners; the emitted program has registers and a stack | one handler per opcode | reads the graph and the slots | slots and pushes, values kept in registers | the emitted program does what the graph says |
| Containers (`Stack.c` ... `HashSet.c`) | sizes, links, buckets | the usual ones | used everywhere | growth, removal at the ends | they implement sequences, sets and functions |
| Input and output, unused code | files | - | - | - | - |

The list of hazards, each at its line, is in `PROJECT.json`; each names the
properties that would catch it, or why none does yet.

## Modules

| module | models | EXTENDS |
|---|---|---|
| `Characters` | letters and digits | - |
| `Scanner` | what the lexer promises: the longest lexeme, and reports | `Characters` |
| `Lexer` | `tokenize` with its automaton and its buffer | `Characters` (an instance of `Scanner`) |
| `Grammar` | the rules of the language and its nonterminals | - |
| `Tables` | what the generator leaves for the parser | - |
| `ParserTables` | the generator of the SLR tables, pass by pass | `Tables` |
| `Parser` | `commit_parser` for any tables that agree with their states | `Tables` |
| `FrontEnd` | both together | `ParserTables`, `Parser` |
| `Derivations` | what the grammar derives, and what the parser refuses of it | `FrontEnd` |
| `Collections` | what the containers promise: sets, a map, sequences | - |
| `Containers` | buckets, chains and nodes in one heap | - (an instance of `Collections`) |
| `Layout` | where the next variable of a frame goes | - |
| `FrameSlots` | slots of nested functions while a program is lowered | `Layout` |
| `IRLowering` | `mainCFG`: syntax tree to flow graph, a pure function | - |
| `Trees` | the syntax trees the instances use | `IRLowering` |
| `IRLiveness` | `computeLiveness`, step by step | - |
| `CallFrames` | the calling convention on a byte-addressed stack | `Layout` |
| `Sementic` | the semantic analysis and its symbol table | - |
| `SourceSemantics` | what a source program means (the reference) | - |
| `Compiler` | optimiser, then the compiled program | `IRLiveness` |
| `Registers` | the register table, and what registers and memory hold | - |
| `Lexer_proofs`, `FrontEnd_proofs`, `Containers_proofs`, `Sementic_proofs`, `IRLiveness_proofs`, `FrameSlots_proofs`, `CallFrames_proofs`, `Registers_proofs` | theorems | the module they name |
| `MCLexer`, `MCParser`, `MCContainers`, `MCLiveness`, `MCCallFrames`, `MCCompiler`, `MCRegisters`, `MCSementic` | instances | |

**Scanner, Lexer.** `Scanner` says what `tokenize` is for, without an automaton:
from left to right the longest lexeme becomes a token, blanks and comments
become nothing, and a text with an unknown character or a lexeme that is too
long is reported. `Lexer` has the C variables: `pos` (`code`), `state`, the
buffer `current_token`, the queue. Each branch of the loop's body is an action,
and the 1400 lines of `Lexer_FSM` are eight rows (`StartRow` ... `StringRow`), in
which a state that stands for the beginning of a keyword is that beginning.
`ScansLongestLexemes` is the refinement: `start` of the promise is where the
buffer begins. Rows and columns, which only messages use, are left out.

**Grammar, ParserTables, Parser, FrontEnd, Derivations.** `ParserTables` makes the
tables as `create_parser_tables` does: `states` are sequences of items in the order in
which they are found, since the order decides conflicts; one action is one pass
of an outer loop (one symbol of a state while states are made, a rule's part in a
round of FOLLOW, a row of a table), and `closure` goes through its growing list in
rounds. The rules are a constant, any list whose right sides are sequences of
terminals and nonterminals (`GrammarsAssumption`); `Grammar` has those of the
language. In none of them a left recursive nonterminal stands behind another
nonterminal (`FollowersAssumption`): with such a rule `add_symbol_as_follow` would call
itself for ever. The programs do not contain the end of a program, which the lexer adds
(`InputsAssumption`). TLC evaluates all three for the grammars of `MCParser`.
The inner loops are recursive functions, so that they can be proved about.
`Parser` is the loop of `commit_parser`; it has the tables as variables and assumes
only `TablesConsistent` of them, which the tables that are made have
(`TablesFitParser`). Three details of the code matter: a rule with
one symbol creates no node (its child goes on in its place), the lexer adds two
ends because the parser looks at the token behind the one it shifts, and
acceptance takes the node of the end off before the root. Three history variables are
not in the code: `symbols`, what each node on the stack was reduced to, `derivation`,
the steps made so far (`Leaf`, a token shifted, or `Branch`, a rule and the earlier
steps it was applied to, with the tokens they cover and their tree), and `made`, the
step that made each node on the stack.

`FrontEnd` states what is compared with the grammar: FOLLOW with the closure it should
be (`FollowExact`), the states with the canonical collection (`StatesCanonical`), both
tables with the items (`CellsJustified`), the tree with a derivation
(`AcceptedIsDerived`: each step is a token or follows from earlier ones by a rule, in
their order and side by side, and one of them is PROGRAM over all tokens with the tree
that `commit_parser` returns). `Derivations` has what the grammar derives: `Rests` is found
in rounds, from rules of which nothing is left to rules that have all their symbols in
front of them. With it goes `RefusedIsWrong`: in a grammar without conflicts, no
program that can be derived is refused.

**Collections, Containers.** All containers share one heap, as they do in the
program: the node one frees is the next one another may get, which is what would
show a dangling pointer. `Uses` says which are used together. A loop that follows
`next` is `Chain`, the sequence of the nodes it meets, and one over all buckets is
`Walk`; those that move or add node after node (`expand`, `united`) are functions of
how many nodes have been met. `answer` is what
the last operation returned, and is compared too: the worklist of the liveness
analysis depends on what `hashset_union` answers.

**IRLiveness.** The state is that of `computeLiveness`: the recursion stack of
the walk that fills the queue (`stack`, `seen`), the queue (`Blocks`), the block
and instruction `liveness` is at (`block`, `index`, `current_live`,
`used_at_all`), the sets and flags it computes, and the instructions removed.
Actions: `Visit` and its return (the walk), `Dequeue`, `AtInstruction` (one
handler of `liveness_functions_for_instr`), `FinishBlock` (the comparison with
the old `live_in` and the queueing of predecessors), and the second walk that
removes. `remove_instruction` shifts an array; here an instruction is named by
its position, and `removed` is a set. `live_at` is a history variable: the live
set seen at each point when its block was last processed, which the equations
are stated with.

**IRLowering, Trees.** One operator per visitor. The state threaded through
them is that of the C globals: blocks, temporaries, functions, and the current
block, which visitors get by reference. A syntax tree is a record whose `kind`
is the nonterminal. A callee name that is not a function, or code that does not
pass the semantic analysis, never reaches `mainCFG` and is not in `Trees`.

**Sementic.** `accept` walks a finished tree; the model chooses the tree while it
walks. `visits` is the C stack of visitors, each at one step of its script (the
sequence of what it does itself and of the children it accepts), and a child is
any construct the grammar allows there (`Allowed`). So the behaviours are the
walks of all programs, not of a list of them. `scopes` is the list of hash maps,
`symbols` the identifiers' infos in the order of their new names (`names_id`),
and an `info` is the number of the symbol whose FunctionInfo it is. Lists the
grammar makes of nested nodes are visited in the same order as one list.
`base` of a visit and `path` of a symbol are history variables: where in the
program something stands, which `ResolvesLexically` compares with what the stack
of hash maps finds. The visitor for `break` is not there, since the lexer makes
an identifier of that word; names of identifiers are not names of nonterminals.

**FrameSlots, Layout.** The arithmetic four functions of `IR_CFG.c` repeat
(round up to the alignment, go down by the size) and the stack of functions
being lowered.

**CallFrames.** The code the handlers emit, executed: `CallInstr` is everything
`handle_call_instr` emits up to `CALL`, `TakeResult` what comes after it,
`FuncStart`, `CopyParameters` and `FuncEnd` are the other handlers. `mem` is
bytes, and a word read back is a value only if both of its bytes are from one
store; so a store that overlaps half of another variable shows. The body of a
function is any sequence of stores to its variables and calls. The pushes and moves
of a call are written as one change of the memory: pushes go to places below SP,
moves of parameters read above BP and write below it, so none sees another's effect.
Nothing in the emitted code looks at the limit of the stack (`DW 1000H DUP(?)`,
`CodeGeneration.c:1156`); `HasRoom` lets a call be made only where it fits.

**Registers.** `available` is the compiler's table, `mem` what the registers and
places hold when the code runs, and one action generates and runs the code of
one instruction: `Additive`, `Product`, `Modulo` and `Compare` are the handlers of the
operations, `AssignTo`, `Use` and `CallInstr` those of the other instructions.
`pending` is the stack of operands `lowerExpression` holds while it recurses; it
decides which instructions can come, and which temporaries somebody still waits
for. A value is named after its temporary or variable, and an operation on
anything but its two operands gives `Junk`. The blocks generated in between
(`traverse_cfg` goes to a callee before the block after the call) leave an
arbitrary table behind (`LeftBehind`), and `SlotOf` of a foreign temporary is where its
offset leads in this frame: it may be the slot of a variable or temporary of this
function, since all frames begin at the same offset from BP. `handle_mul_div_instr` and
`handle_mod_instr` emit the same instructions and differ in the register the result is in
(`MulDiv` and `Mod`, both by `ThroughAX`), and in what they free: the latter frees a
string literal when an operand is in a register (`FreesLiteral`), which is undefined, so
that `Modulo` may also leave the compiler `aborted`, with no step after it.

`OnlyKnownLosses` says of every step, whatever products, calls and leftovers come, how a
value can be lost: a product spoils the register it is in, a product or call saves a
foreign leftover over its slot, or a value lost before is used. `HarmlessSpec` has the
steps that do none of this, and for those `AwaitedKept` says that nothing is lost.

**Compiler, SourceSemantics.** The optimiser's steps and then the program's,
one per instruction left, compared with a definition of the source language by
its syntax trees.

## Runs

| run | question | states |
|---|---|---|
| `lexer` | are the tokens the longest lexemes, is everything else reported, and does the loop end? | 112501 |
| `parser` | are the tables the SLR tables, and does the parser with them accept what the grammar derives, with its derivation? | 27103 |
| `containers` | are the containers sets, a map and sequences, and does every node have one owner? | 24663 |
| `sementic` | does every name, return and call mean what lexical scoping says, whatever is refused on the way? | 1351752 |
| `liveness` | does the optimiser compute the least solution, delete exactly what it allows, and end? | 22578 |
| `frame_slots` | are the slots of a frame disjoint and inside the reserved space? | 131580 |
| `call_frames` | do all variables of all active calls keep their values, whatever calls are made? | 596099 |
| `call_frames_bool` | does a bool parameter get its argument? (no) | - |
| `compiler` | do compiled programs print what they should, and end? | 73360 |
| `compiler_calls` | also with a call in a condition, or in the change of a loop? (no) | - |
| `compiler_recursion` | does the optimiser see that a recursive call has its own variables? (no) | - |
| `registers` | whatever products, calls and leftovers come, in which ways can a value be lost? | 89689 |

**Bounds.** `lexer`: all texts of up to four of nine characters, one of each
kind the rows tell apart, and all sentences of three of sixteen pieces (keywords,
beginnings of them and longer words, operators of two signs, comments and strings
that end, do not end, and end at a minus). `MaxTokenLength` is 8 instead of 64, so
that `functions` just fits and `functionss` does not; nothing but the limit depends
on it. No piece begins with "br" (see below). `parser`: with the grammar of the
language, sixteen programs that use every statement and operator, and each of them
with a token left out, doubled or exchanged with the next; with two parts of it that
have no conflicts (`Expressions`, `Calls`) all sequences of up to four terminals.
The part of the language's tables does not depend on inputs and is the real one: 176
states, 41 terminals, 113 rules. `containers`: four keys of which three collide
before and two after a table has grown, two sets and a map, four nodes, so that the
fourth insertion makes a table of five buckets grow, two values. `liveness` runs on 303 programs: two statements (each kind of
definition and use) inside each kind of branch and loop, functions with each
kind of effect called from statements, expressions, conditions and changes, and a few
odd ones. `MaxBlocks` = 16 and `MaxTemps` = 8 are larger than any of these
needs; a graph of that size has every way two blocks can be related (loop, join,
call and return, several calls of a function). `frame_slots`: three slots of both sizes in a frame are enough for every
padding, two open functions for nesting. `call_frames`: the main program and two
more calls, of functions with one and two word parameters and locals of both
sizes, so that a waiting call has another one above it; `Top` = 54 bytes has
room for two calls of any of them. `compiler`: 282 of these programs; `MaxSteps` = 60
instructions of those that make the state grow (`Growing`: output, input, calls, and ADD,
SUB and MUL), so that a loop without any of them goes on for ever in the model too;
`Fuel` = 200 statements of the reference. A program that ends does so within them, one
that does not end is compared as far as it went. Numbers stay below 100, so 16-bit arithmetic does
not matter. Two inputs: 0, 1, 2, ... and 2, 2, 2, .... `registers`: three operands wait
(`MaxPending`), so that one waits below an operation, with three registers, and
calls of up to one argument (`MaxArgs`); four temporaries are three that wait and one
that was forgotten but is still appointed, beside two of another function, of which one
has the slot of the variable and one that of a temporary of this frame (`SharedSlots`).
The run follows all steps up to the first that loses a value (`UntilLoss`): what becomes
of the others when one is lost already, and any number of temporaries, is left to
the theorem `LossesAreKnown`. `sementic`: a program is made of one of
three families of constructs: scopes and variables (5 visits), functions, calls
and returns (5 visits: a function in a block of a function and a return behind
it), expressions and types (3 visits); two names, so that one can be declared
twice and shadowed, and one that is not, and up to two arguments. Each hazard
needs no more: shadowing needs two declarations, a scope around each, and a use.

**Left out of `compiler`.** A call in a condition or in the change of a loop, a local
variable of a recursive function, and the operator `&` (the programs `Callers[4]`, those
named by `tree`, and `Odd[1]` of `Trees`). What they show is the finding of
`compiler_calls`, in which `Source` is the three programs with such a call, and that of
`compiler_recursion`; `&` is not lowered to an instruction that emits code. A
function declared inside another one is not in `Trees`. `liveness` leaves out none.

**Left out of `registers`.** No steps and no slots: products that spoil a register in use
and leftovers saved over a variable are in the run, as `OnlyKnownLosses` has to name
them. Temporaries have two bytes.

**Deadlock.** `lexer` and `parser` stop when the text is tokenized and the program
parsed, `frame_slots` stops at its bounds, `sementic` when the program is
walked, and `registers` when a value is lost, when all
temporaries are waited for or appointed, or when the compiler has aborted; the other specifications loop
in a final state, or always have a next step (`containers`), and are checked for
deadlock.

**Fairness.** `IRLiveness`, `Compiler` and `Lexer` assume weak fairness of their
next-state relation and `FrontEnd` of the parser's steps: the compiler and the program it makes are one thread that
never waits for anybody, so it takes steps as long as it can.

## Findings

Three runs end in a violation; each compares the code with a comment of it.

1. `call_frames_bool`: a parameter of one byte is read from inside the return
   address (`CodeGeneration.c:924`), since the place of an argument is computed
   from the slot, and arguments are words.
2. `compiler_calls`: "from start can go to then" (`IR_CFG.c:805`), but the edges of a
   branch are added to the block before its condition is lowered (line 808). A call in
   the condition moves the branch to another block, which is left without
   successors, so that the optimiser takes what the callee assigned for dead: with
   `x = 3` in f, `if call f(y) == 1 {print x}` prints the old x. This is the program TLC
   reports (`CallInCondition`). With only one of the others in `CallSites`, it reports
   that one:
   - `CallInLoopCondition`: "from body can go to condition(loop)" (`IR_CFG.c:857`), but
     the jump is made at line 867 from the pointer that lowering the condition has moved.
     In `while call f(x) < y {print x; x = y}` the call is made once, and the loop goes
     back behind it for ever. It is the same in `for` loops.
   - `CallInChange`: "from body to change" (`IR_CFG.c:940`), but `changeBlock` is the
     block where the change has ended (line 938), and edge and jump (line 951) go there:
     a call in the change is skipped.
3. `compiler_recursion`: the analysis knows variables by name; in a recursive
   function the callee's assignments count as assignments to the caller's
   variables, and an assignment the caller needs is deleted.

**Known deviations.** The models do the following as the code does; most
contradict no comment or test of the repository precisely enough for a finding, and the
first two are checked in what they allow, by `registers`.

- `release_register` saves CX and DX "for carry" (`CodeGeneration.c:646`) but leaves them
  appointed, so a temporary there is read from the register that a product then
  overwrites; so is a right operand in DX. In `(a + b) - ((c + d) - e * 2)` the sum `c + d`
  is in CX when `MOV CX, 2` comes. `OnlyKnownLosses` calls this `Spoils`.
- `release_all_registers` is to place registers "in the respective place in the stack"
  (`CodeGeneration.c:888`), but a temporary left over from another function has its place
  in another frame, and all frames begin at the same offset from BP: it is saved over a
  variable or temporary of this one. `OnlyKnownLosses` calls this `Overwrites`.
- MOD frees a string literal when an operand is in a register: `temp_access` comes from
  `get_register_name` (`CodeGeneration.c:704`) and is freed at line 743. Undefined; the
  compiled compiler crashes on `x = (x + y) % y`. The model lets it stop there or go on.
- A declaration handled before a use of its variable is deleted, although
  "if used at all, declare is live" (`IR_Liveness.c:51`); it emits no code.
- `break` is an identifier (`LexerFSM.c:99` sends B with 'r' to R), and `breturn`
  is the keyword `return`; `while true {break}` is refused by the parser.
- A minus ends comments and strings (their rows have no entry for it): `#a-b#` and
  `print "a-b"` are not what they look like. `Scanner` states this as it is.
- `!`, `&` and `|` have no terminal, and `associationArray` gives them column 0,
  that of `&&`.
- A lexeme of `MAX_TOKEN_LENGTH + 1` characters is accepted: the limit is compared
  with `>` (`Lexer.c:70`) and the buffer is one longer, so that only the
  terminator (`Lexer.c:103`) is written behind it; the text in the message of a
  longer one (`Lexer.c:54-59`) has no terminator. `TypeOK` of `Lexer` and the limit of
  `Scanner` state this as it is, so `lexer` does not catch it: only a limit worse by
  one more.
- The grammar has conflicts (514 times a cell is wanted twice); a shift stays, and
  among reductions the first. `if call f {...}` and `if x {...}` are refused.
- An error at the first token is reported with a node in a compound literal whose
  lifetime has ended (`Parser.c:76`): undefined, and a crash in an optimised build.
  That nothing but the first token leads there is `CrashOnlyAtStart`, proved.
- `add_nonterminals_rules_first_symbols_as_follows` always reports that nothing
  changed (`ParserTableFollow.c:33`). No round is lost by it: `FollowExact` is proved
  (`FollowIsExact`).

The lexer's and parser's entries were also seen on the compiled program, and
the tables TLC computes for the language agree in every cell that is not empty (3287)
with those of the compiled generator.

## Proofs

`Lexer_proofs` proves that `tokenize` implements `Scanner` for every text and every
limit (`LexerImplementsScanner`), and its types (`TypeCorrect`). The refinement assumes
`NoWordBeginsWithBr`, that the row of B is not asked for 'r': there the automaton goes to
R, forgets the 'b', and 'break' is never a keyword (see the deviations). The
automaton has no other wrong entry against `Scanner`, which states what a minus does in
comments as it is. The invariant `Inv` says what the
state tells of the buffer (`Tells`): a beginning of a keyword or an operator is in the
buffer itself, IDENTIFIER holds a word that begins no keyword, and so on for each of the
states. `Starts` and `AutomatonFollows`, with one lemma per row, show that the automaton
goes on with a character exactly when the buffer stays a lexeme. Since what a lexeme
begins with is a lexeme (`BeginningsAreLexemes`), a lexeme that does not go on by one
character does not go on by more, so that looking one character ahead finds the longest
(`TakesLongest`). One lemma per action then maps it to a step of `Scanner`.

`FrontEnd_proofs` proves of the generator and the parser together, for every grammar
of the form `GrammarsAssumption` allows and every input, that the tables that are made
agree with their states (`TablesAreMade`, of `TablesFitParser`), that the symbols on the
stack spell every item of the state on top (`ParsesWhatIsThere`), and that an error at
the first token is the only one that is reported without a node (`CrashesOnlyAtStart`).
It also proves what the tables are: the states are the canonical collection
(`CollectionIsCanonical`), FOLLOW is exact (`FollowIsExact`), each cell holds what the
items of its state call for (`CellsAreCalledFor`); and what comes of it: an accepted
program has the tree of a derivation of all its tokens (`AcceptsWhatIsDerived`), and
with a grammar that has no conflicts a program of the language is not refused
(`RefusesWhatIsWrong`, of `RefusedIsWrong`).
Of the parser alone, for all tables that agree with their states, however they were
made, it proves that a rule is only reduced when its right side is on top of the stacks
(`ReducesWhatIsThere`), which is why popping never takes more than there is, and that
the report of an error finds a node unless not a token was taken
(`ReportsAfterFirstToken`). The agreement is `TablesConsistent`: in a state reached by
X, every rule begun has X before its dot and is open in the state one step back.

That the generator establishes this agreement does not depend on FOLLOW, only on how
states are made, and that is an argument about loops. A loop of the model is a function over its
turns, `Unrolled` says that it has a value whenever its step stays in a set, and a loop's
lemma follows from one about its step: `Grown` and the lemmas around it for `closure`
(it only adds items with the dot in front), `Moves` for the items behind a symbol,
`GoesOn` for a state that is new or found among the old ones. The invariant `GInv` says
of the unfinished tables what `TablesConsistent` says of finished ones: rules are those
of the grammar (`RulesOK`), the items of a state behind their first symbol come from a
state made before (`StatesOK`, with `Apart`, no two states have the same items),
a row written holds what the state's items call for, as far as they were looked at
(`TablesOK`, with `RowMade` and `GotosMade`), and terminals are those of the rules
(`TerminalsOK`). `FInv` hands it over to the parser. There,
`InLoop` says how long the stacks are, that the pending action comes from the tables
(`Pending`), and that every item of a state is spelled by the symbols below it
(`Spelled`); that a state's items stay spelled when the stack is popped and pushed is
`PopSpelled` and `PushSpelled`.

The properties speak of fixed points, and what is proved of an iteration is that it ends
in one: `Reach` is the least set that contains a symbol and is closed under steps (it
stops growing before there are more rounds than steps), `closure` the least set of items
that contains its kernel and is closed (`ClosureOfLeast`), though it only looks for an
item among those it has. So a state made is the closure of what was moved, found again
among the old states in whatever order its items come, which is why no two are the same.

FOLLOW is harder, because of the missing report. The invariant `FollowOK` says from
above that each pair in FOLLOW stands behind it (`Behind`, the least relation closed
under the rules, by `BehindLeast`), and from below that of the rules gone through, the
first symbols behind each nonterminal are given (`Given`). In the first round
(`FirstRound`) the rules before the current one are given, whether or not a change was
reported; a round that begins later (`LaterRound`) finds all of them given, so that a
change it does not report cannot happen. What remains is what is handed from a left
side to the last symbol, which is always reported: a round without a change has handed
on everything. That the first round is never the last one is due to the start rule: it
is the last in the list, and its "$" is noticed.

`AcceptsWhatIsDerived` follows from a third invariant, `AInv`: the lines of
`derivation` are justified (`Lines`), the nodes on the stack are the trees of the steps
in `made` with the symbols in `symbols` (`Derived`), those steps stand side by side from
the first token to the last one taken (`Aligned`), the token to be taken next is the one
that is looked at, so that the end is never shifted and tokens do not run out
(`Reading`), and what is returned at the end is one of the trees (`Outcome`). A reduction
joins the top of the stack in one step because, by `Spelled`, the symbols there are the
rule's right side.

`RefusesWhatIsWrong` is the other direction. Since what a recursion computes cannot be
proved by induction over data, both notions it needs are least sets, and each lemma
about them shows that some set is complete. `Remaining` is what is left of rules: the
tuples of a rule, a dot, and two places in the program between which the symbols behind
the dot derive the tokens. It is what `Rests` finds in its rounds (`RestsAreAll`): a
symbol derives one token at least, so a tuple fits in a box of as many tuples as there
are rounds, and a round that is not the last adds one. So `Derivable` says what the
grammar derives, and not what was found in time (`RoundsAreEnough`). `Awaited` is what the
states on the stack wait for: a symbol, how many states it is to come on, and the place
up to which it has to derive tokens, so that the rest can be read. The invariant `Going`
of `CInv` says of a program that can be derived that something awaited begins on the stack
and continues with the next token (`Reads`), and behind a reduction that the nonterminal
to go to is awaited where the stack ends. The next token then is one that some item of the
state on top moves with, or, when nothing is left of the rule, one that stands behind its
left side (`NextAwaited`, `AwaitedFollows`), hence in FOLLOW by `FollowOK`; without
conflicts the cell cannot hold anything but this step (`CellReads`, `GotoReads`), so that
there is never an error to report. What is awaited below stays so when the stack is
popped, since it does not depend on the states above (`AwaitedBelow`).
The grammar of the language itself has conflicts (see the deviations), so the theorem
says nothing of it: it holds of the parts that have none, like `Expressions` and
`Calls` of `MCParser`, and of what the generator would make of any such grammar.

`Containers_proofs` proves all four properties of `containers`, for any number of nodes,
keys, values and sets, every hash function and every order of operations: types and
sizes (`ContainersTypeOK`), that every node in use has one owner and no other is reached
(`NodesHaveOneOwner`), that a key is found in the one bucket it is looked for in
(`KeysAreFindable`), and that `Containers` implements `Collections`
(`ContainersImplementCollections`: initial states are initial states, every step is a
step or a stutter). It assumes that memory is finite (`MemoryIsFinite`), that hashes
and capacities are natural numbers, as `unsigned` is (`NumbersAreNatural`), and that
names are told apart (`NamesApart`).

`IsChain` says that a sequence is what following `next` from a pointer finds: each
node's `next` is the one behind it, the last one's is NULL, none comes twice. `ChainIs`
ties it to what the code follows, by induction on the steps (`Counted`): a chain is not
longer than there are nodes. From there on a change is one of sequences, with one lemma
each: a node in front (`ChainFront`), the first one gone (`ChainRest`), one at the end
(`ChainEnd`), one taken out behind another (`ChainWithout`), none of it touched
(`ChainKept`). The invariant is `CInv`: there is a function from containers to sets of
nodes that shares out the nodes in use (`Divided`), a table has its nodes in the buckets
of their keys (`Hashed`), no key twice, as many as its size says and within the load
(`GoodTable`), a list has the length it says (`GoodList`), and the queue's tail is its
last node unless it is empty (`GoodQueue`): of an empty queue nothing is said about the
tail, which still points at what was freed. An operation changes the nodes of one
container and those nobody had (`Changed`); that the others, and all they stand for,
stay as they are is proved once (`OthersKept`, `TableChanges`, `QueueNow` and the like).
The loops are handled as in `FrontEnd_proofs`: after i nodes of `expand`, the first i
are in the larger table and the others have their old keys (`ExpandIs`); after i nodes
of `hashset_union`, the table has the keys of those i (`UnionIs`). One lemma per
operation (`InsertKeeps` ... `DequeueKeeps`) proves both the invariant and the step of
`Collections`.

`Sementic_proofs` proves the seven properties of `sementic` for every program,
any set of names and any depth. Of the first five, the numbers kept are those of symbols that exist
(`NumbersOfSymbols`), scopes are restored (`ScopesBalance`), returns and calls are
checked against the right function (`ReturnsAreChecked`, `CalleesHaveInfo`) and no
type is UNKNOWN in silence (`UnknownIsReported`); they rest on one invariant: a
visit has a scope of its own open exactly between its "open" and its "close"
(`Inside`, `Own`), and these are all scopes there are beside the global one
(`Nested`); the helpers in the scopes are those of the functions around (`Helpers`);
a visit has the values and the symbol its result is computed from (`Values`,
`Refers`); and only the function being declared may lack its FunctionInfo, which is
before anything is visited in it (`Published`). What the scripts of the visitors have
to do with it is one lemma, `Scripts`: change the order of a visitor's steps and it
fails.

The sixth is `NamesResolveLexically`. The scopes of the code know
nothing of the tree, so the invariant `LInv` ties them to it. Each scope but the
global one belongs to a visit (`Owners`); a visit keeps its place and its steps come
in order, so the path a declaration has keeps its meaning (`Ids`, `Paths`). What is in
a scope is a declaration still alive in the construct the scope belongs to
(`Entries`), every declaration that is alive is in some scope (`Kept`), and outer
scopes hold older ones (`Older`). Below an expression there are only expressions
(`BelowExpressions`), so that a declaration is made where the scopes of all the
constructs around it are open. `Aged` carries the invariant over to later visits,
`Added` to a new declaration, and `VisibleAlive` says that to be alive is to be visible
in the sense of the property. With the invariant, the search from the innermost scope
outwards meets the latest visible declaration first.

The seventh is `InfosListParameters`. A parameter is recorded in
the info found under the name CURRENT_FUNCTION_SYMBOL, wherever the search finds it;
that this is the helper of the function the parameter belongs to is `HelperFound`. The
invariant `PInv` numbers visits in the order in which they start (`Numbered`), places
a helper in its function for as long as that is visited (`Headed`), lists the symbols
right behind a helper as the parameters (`Lists`), lets every info be a helper's and no
function have two (`Owned`), and says that while parameters are declared the last one
is the last symbol (`Growing`), so that a refused duplicate leaves no gap.

`IRLiveness_proofs` proves, for every flow graph whose edges are mirrored
(`ProgramsAssumption` and the other assumptions of `IRLiveness`), that the
worklist forgets no block (`WorklistCorrect`), that nothing needed is deleted
(`EliminationSafe`), that no useless computation is left
(`EliminationComplete`), that variables keep their types (`TypeCorrect`), and
that the live sets are at all times below every solution of the equations
(`LeastLiveness`), hence below the one that rounds of the equations reach from empty sets
(`NothingIsLiveInVain`): rounds only add (`ImproveMonotone`), what a round adds nothing
to is a solution (`SolutionIs`), and there is not more to add than names at points
(`RoundsSolve`, for which blocks and names are finite, `FiniteAssumption`). The properties are not inductive. The invariant `IInv` adds
what they rest on: `Walked` (the walks know exactly the reachable blocks: what
was seen is closed under successors except for the frames on the recursion
stack), `Below` (no live set has more than its equation gives with the current
sets of its successors; so sets only grow, and a flag once set stays right),
`Current` (the block being processed is solved behind the current instruction),
`Settled` (every other reachable block is queued or solved) and `Removal` (only
unflagged instructions are deleted, and all of them in blocks already walked).
`Init => IInv` and one lemma per action give `Invariance`; each theorem follows
from `IInv` without temporal reasoning.

`FrameSlots_proofs` proves, for any number of functions, slots and nesting, that
slots are disjoint (`SlotsDisjoint`) and inside the reserved space
(`SlotsInReservedSpace`). The invariant says of each frame (`GoodFrame`) that
its slots come in descending order and all lie above `-pos`, so that the next
one, which starts at or below `-pos`, misses them.

`CallFrames_proofs` proves the three properties of `call_frames` for any functions, any
number of parameters and locals and any nesting of calls: variables of all active calls
keep their values (`VariablesKept`), a body always runs right above its own frame
(`StackStaysBalanced`), and RET finds the address CALL pushed (`ControlStaysKept`). The hypothesis `WordParameters`, that no parameter has one byte,
is exactly what the finding of `call_frames_bool` is about: without it the theorem is
false. Its invariant describes the whole stack: frames lie apart, each its variables
below the link that holds the saved BP and the return address (`StackOK`, `Link`); the
main program is the one at the bottom and every result has a word variable of the caller
to go to (`Chain`); and the call on top is as far as its handler has come
(`Started`, `Entered`, `Running`, `Answered`). A frame is laid slot after slot by
a recursive function (`Laid`); that frames are good for every number of slots
(`LaidGood`) is shown by the least number for which one would not be.

`Registers_proofs` is about any number of temporaries, variables and waiting operands,
and any slots of foreign temporaries. For the whole specification it proves
`TypeCorrect`, that no temporary is in two registers, and `LossesAreKnown`, that values
are lost in no other way than `OnlyKnownLosses` names. For the steps of `HarmlessSpec`
it proves `AwaitedStaysKept`, that each awaited temporary is where `get_access_name`
says, from the invariant `IInv`, in which types, awaited values and variables are
inductive together. For `Spec` this is false; `OnlyKnownLosses` says how it can fail.
Since a handler emits several instructions, the argument
is about a table and a memory in the middle of one (`Holds`: the values in a set are
where the table says). Saving, appointing and storing each keep `Holds`
(`ReleaseHolds`, `AppointHolds`, `StoreHolds`), the first where no foreign temporary is
saved over a slot of the set (`Clear`); an operation finds its operands where it looks
(`StillReadable`); and one lemma per handler puts them together. The set, `K`, is any set
of values in their places (`Kept`): with all of them it gives the invariant, and with one
value, or with the operands of one result, `LossesAreKnown`, which has to say of each
value alone what becomes of it when others are lost.

Only model-checked: termination, `EndsAsWritten` and `Answered` (liveness is out of
the prover's reach); `PrintsAsWritten` and `ControlFollowsEdges`, which compare programs
with the recursive operators of `IRLowering` and `SourceSemantics`.

## Not modelled, and the plan

What could follow, in this order:

1. Numbers: 16-bit arithmetic and the library procedures that read and print
   numbers.
2. `ArrayList`, which holds the items and the blocks, and the composition of the
   lexer with `FrontEnd` (here the parser's inputs are sequences of token types).

Files and the console are pure I/O. `StringTrie.c`, `Tokens.c`,
`HandleOperator.c`, `IntermidiatePhase.cpp` and `ConsoleOutput.c` are used by
nothing, and so are the operations of the containers that copy, compare or
subtract sets or remove from the middle of a list. Printing and freeing whole
structures changes nothing the rest depends on; memory that runs out ends the
program with `handle_out_of_memory_error` wherever it happens.
