--------------------------------- MODULE Terminal ---------------------------------
(***************************************************************************)
(* What git-lan does on a terminal's input: the Nerd Fonts probe of every  *)
(* command's start, which asks for the cursor's column and waits 200 ms for*)
(* the answer, the cache of its results shared by all commands, and the    *)
(* approval prompts of a session, which read the same stdin.               *)
(*                                                                         *)
(* A query that times out leaves a goroutine blocked in a read of stdin.   *)
(* Reads of one os.File are serialized: that goroutine gets what arrives   *)
(* first, until it has seen an 'R', the last byte of a terminal's answer.  *)
(* Each process has a terminal of its own; several may share a profile.    *)
(***************************************************************************)
EXTENDS Integers, SequencesExt

CONSTANTS Procs,    \* commands being run
          Host,     \* the one that is session create
          Redetect, \* those that are config --detect-fonts: they probe twice
          Profiles, \* values of terminalProfileKey
          Peers,    \* unknown peers connecting to Host
          MaxLines, \* bound: lines the operator has typed that nobody has read
          None

ASSUME ProcAssumption == /\ Host \in Procs /\ Redetect \subseteq Procs \ {Host}
                         /\ None \notin Peers \cup Procs
                         /\ MaxLines \in Nat

VARIABLES profile,   \* profile[p]: the profile of p's terminal
          width,     \* width[p]: cells its glyph takes there
          answers,   \* answers[p]: that terminal answers DSR
          cache,     \* terminal_profiles.toml, as loadCache reads it
          written,   \* its bytes: the entries that were written to it
          pc,        \* pc[p]: where p stands
          again,     \* processes with RedetectCurrent ahead
          loaded,    \* loaded[p]: the profileCache in p's memory
          before,    \* before[p]: the column measured before the glyph
          owed,      \* owed[p]: columns its terminal has still to report
          tty,       \* tty[p]: input nobody has read
          leftover,  \* leftover[p]: goroutines of timed-out queries
          turn,      \* who reads the Host's next line: "leftover", "prompt"
          approveMu, \* the peer asked about, or None
          stage,     \* stage[x]: where the approval of peer x stands
          shown,     \* the peer whose question was printed last
          said,      \* history: peers the operator said yes to while they were shown
          ahead      \* history: peers for whom a yes was queued when they were shown

cacheVars == <<profile, width, answers, cache, written, loaded>>
probeVars == <<pc, again, before>>
ttyVars == <<owed, tty, leftover, turn>>
askVars == <<approveMu, stage, shown, said, ahead>>
terminalVars == <<cacheVars, probeVars, ttyVars, askVars>>

NoProfiles == [k \in Profiles |-> "none"]
Typed == {"a", "r", "t"}                   \* r: any other line, and Enter alone
Yes == {"a", "t"}
Entries == Profiles \X {"yes", "no"}
Report(col) == [kind |-> "report", col |-> col]
Key == [kind |-> "key", col |-> 0]         \* an 'R' typed while the terminal is raw
Line(text) == [kind |-> "line", text |-> text]
IsLine(i) == i.kind = "line"

TerminalOK ==
  /\ cache \in [Profiles -> {"none", "yes", "no"}] /\ written \subseteq Entries
  /\ pc \in [Procs -> {"start", "before", "after", "measured", "truncated",
                       "again", "ready"}]
  /\ again \subseteq Redetect
  /\ loaded \in [Procs -> [Profiles -> {"none", "yes", "no"}]]
  /\ before \in [Procs -> 0..3]
  /\ \A p \in Procs : \A i \in DOMAIN tty[p] :
       tty[p][i].kind \in {"report", "key", "line"}
  /\ leftover \in [Procs -> 0..2]
  /\ turn \in {"leftover", "prompt"}
  /\ approveMu \in Peers \cup {None} /\ shown \in Peers \cup {None}
  /\ stage \in [Peers -> {"absent", "new", "asked", "label", "admitted",
                          "rejected"}]
  /\ \A x \in Peers : approveMu = x <=> stage[x] \in {"asked", "label"}
  /\ said \subseteq Peers /\ ahead \subseteq Peers

TerminalInit ==
  /\ profile \in [Procs -> Profiles]
  /\ width \in [Procs -> {0, 1, 2}]
  /\ answers \in [Procs -> BOOLEAN]
  /\ cache = NoProfiles /\ written = {}
  /\ pc \in [Procs -> {"start", "ready"}]     \* ready: its detection is over
  /\ again = Redetect
  /\ loaded = [p \in Procs |-> NoProfiles]
  /\ before = [p \in Procs |-> 0]
  /\ owed = [p \in Procs |-> <<>>] /\ tty = [p \in Procs |-> <<>>]
  /\ leftover = [p \in Procs |-> 0]
  /\ turn = "leftover"
  /\ approveMu = None /\ shown = None
  /\ stage \in [Peers -> {"new", "absent"}]   \* absent: never connects
  /\ said = {} /\ ahead = {}

----------------------------------------------------------------------------------
(* Faulty variants of operators below: any advance of the cursor taken for *)
(* one cell; a prompt that does not wait for the one before; a leftover    *)
(* that reads on after an 'R'.                                             *)
AnyAdvance(p, i) == i.kind = "report" /\ i.col > before[p]
MuIgnored == TRUE
NeverEnds(read) == FALSE

----------------------------------------------------------------------------------
(* DetectNerdFonts and RedetectCurrent.                                    *)
Raw(p) == pc[p] \in {"before", "after"}
Finish(p) == pc' = [pc EXCEPT ![p] = IF p \in again THEN "again" ELSE "ready"]

(* ESC [6n: the terminal will report the column the cursor is in.          *)
Query(p, col) == owed' = [owed EXCEPT ![p] = IF answers[p] THEN Append(@, col) ELSE @]

Measured(p, ok) == /\ pc' = [pc EXCEPT ![p] = "measured"]
                   /\ loaded' = [loaded EXCEPT ![p][profile[p]] = IF ok THEN "yes" ELSE "no"]

(* Stdin may not be put into raw mode: a probe that fails at once.         *)
Probe(p, profiles) ==
  \/ /\ loaded' = [loaded EXCEPT ![p] = profiles]
     /\ pc' = [pc EXCEPT ![p] = "before"]
     /\ Query(p, 1)
  \/ /\ loaded' = [loaded EXCEPT ![p] = [profiles EXCEPT ![profile[p]] = "no"]]
     /\ pc' = [pc EXCEPT ![p] = "measured"]
     /\ UNCHANGED owed

Detect(p) == /\ pc[p] = "start"
             /\ \/ cache[profile[p]] = "none" /\ Probe(p, cache)
                \/ Finish(p) /\ UNCHANGED <<loaded, owed>> \* flag, setting, cache or no TTY
             /\ UNCHANGED <<profile, width, answers, cache, written, again, before, tty, leftover, turn,
                            askVars>>

Redetection(p) == /\ pc[p] = "again"
                  /\ again' = again \ {p}
                  /\ \/ Probe(p, [cache EXCEPT ![profile[p]] = "none"])
                     \/ pc' = [pc EXCEPT ![p] = "ready"] /\ UNCHANGED <<loaded, owed>>
                  /\ UNCHANGED <<profile, width, answers, cache, written, before, tty, leftover, turn,
                                 askVars>>

(* cursorColumn gets its answer, once no goroutine of an earlier probe is  *)
(* ahead of it.  What its reader took besides is lost with the probe.      *)
OneCell(p, i) == i.kind = "report" /\ i.col - before[p] = 1
ColumnRead(p) ==
  /\ Raw(p) /\ leftover[p] = 0 /\ tty[p] # <<>>
  /\ LET i == Head(tty[p]) IN
       \/ /\ pc[p] = "before" /\ i.kind = "report"
          /\ before' = [before EXCEPT ![p] = i.col]
          /\ pc' = [pc EXCEPT ![p] = "after"]
          /\ Query(p, 1 + width[p])
          /\ tty' = [tty EXCEPT ![p] = Tail(@)]
          /\ UNCHANGED loaded
       \/ /\ pc[p] = "after" \/ i.kind = "key"
          /\ Measured(p, OneCell(p, i))
          /\ \E n \in 1..Len(tty[p]) : tty' = [tty EXCEPT ![p] = SubSeq(@, n + 1, Len(@))]
          /\ UNCHANGED <<before, owed>>
  /\ UNCHANGED <<profile, width, answers, cache, written, again, leftover, turn, askVars>>

Timeout(p) == /\ Raw(p)
              /\ leftover' = [leftover EXCEPT ![p] = @ + 1]
              /\ turn' = IF p = Host THEN "leftover" ELSE turn
              /\ Measured(p, FALSE)
              /\ UNCHANGED <<profile, width, answers, cache, written, again, before, owed, tty, askVars>>

(* profileCache.save, its error dropped: O_TRUNC, then one write of all the*)
(* entries or, when encoding or writing fails, of nothing.  Over the longer*)
(* text of another process it leaves a tail: with that the file reads as   *)
(* garbled, or has entries of the others too, for other profiles.          *)
Own(p) == {e \in Entries : loaded[p][e[1]] = e[2]}
Mixed(p) == {f \in [Profiles -> {"none", "yes", "no"}] : \A k \in Profiles :
               IF loaded[p][k] # "none" THEN f[k] = loaded[p][k]
               ELSE f[k] = "none" \/ <<k, f[k]>> \in written}

SaveTruncate(p) == /\ pc[p] = "measured"
                   /\ \/ /\ pc' = [pc EXCEPT ![p] = "truncated"]
                         /\ cache' = NoProfiles /\ written' = {}
                      \/ Finish(p) /\ UNCHANGED <<cache, written>>
                   /\ UNCHANGED <<profile, width, answers, loaded, again, before, ttyVars, askVars>>

SaveWrite(p) == /\ pc[p] = "truncated"
                /\ \/ cache' = loaded[p] /\ written' = Own(p)
                   \/ /\ written # {}
                      /\ cache' \in {NoProfiles} \cup Mixed(p)
                      /\ written' = written \cup Own(p)
                   \/ UNCHANGED <<cache, written>>
                /\ Finish(p)
                /\ UNCHANGED <<profile, width, answers, loaded, again, before, ttyVars, askVars>>

----------------------------------------------------------------------------------
(* The terminal and who sits at it.                                        *)
Arrives(p, i) == tty' = [tty EXCEPT ![p] = Append(@, i)]

Reports(p) == /\ owed[p] # <<>>
              /\ pc[p] # "ready" \/ p = Host
              /\ Arrives(p, Report(Head(owed[p])))
              /\ owed' = [owed EXCEPT ![p] = Tail(@)]
              /\ UNCHANGED <<cacheVars, probeVars, leftover, turn, askVars>>

TypesKey(p) == /\ Raw(p)
               /\ Key \notin ToSet(tty[p])
               /\ Arrives(p, Key)
               /\ UNCHANGED <<cacheVars, probeVars, owed, leftover, turn, askVars>>

Lines == {i \in DOMAIN tty[Host] : IsLine(tty[Host][i])}
HasLine == Lines # {}
SaysYes == \E i \in Lines : tty[Host][i].text \in Yes

(* The operator may type a line at any time, asked or not, and several of  *)
(* them.  What was typed before the probe its reader takes along with the  *)
(* report it waits for, and a raw terminal makes no lines.                 *)
TypesLine == /\ pc[Host] = "ready"
             /\ Cardinality(Lines) < MaxLines
             /\ \E line \in Typed :
                  /\ Arrives(Host, Line(line))
                  /\ said' = IF shown # None /\ stage[shown] = "asked" /\ line \in Yes
                             THEN said \cup {shown} ELSE said
             /\ UNCHANGED <<cacheVars, probeVars, owed, leftover, turn, approveMu, stage, shown,
                            ahead>>

(* He answers a question, and again when what he typed had no effect.      *)
Answers == /\ shown # None /\ stage[shown] \in {"asked", "label"}
           /\ ~HasLine
           /\ TypesLine

----------------------------------------------------------------------------------
(* Reads of stdin in a cooked terminal: one line, with whatever reports    *)
(* and keys came before it.  Nothing drains what is queued.                *)
FirstLine(e) == e \in Lines /\ \A i \in Lines : e <= i
Dirty(e) == e > 1
LineTaken(e) == tty' = [tty EXCEPT ![Host] = SubSeq(@, e + 1, Len(@))]

(* ReadString('R') of a timed-out query, in raw mode and in cooked.        *)
Ends(dirty) == dirty
LeftoverReadsRaw(p) == /\ Raw(p) /\ leftover[p] > 0 /\ tty[p] # <<>>
                       /\ \E n \in 1..Len(tty[p]) :
                            tty' = [tty EXCEPT ![p] = SubSeq(@, n + 1, Len(@))]
                       /\ leftover' = [leftover EXCEPT ![p] = @ - 1]
                       /\ UNCHANGED <<cacheVars, probeVars, owed, turn, askVars>>

LeftoverReadsLine == /\ pc[Host] = "ready" /\ leftover[Host] > 0
                     /\ turn = "leftover"
                     /\ \E e \in Lines :
                          /\ FirstLine(e) /\ LineTaken(e)
                          /\ \/ leftover' = [leftover EXCEPT ![Host] = @ - 1]
                             \/ ~Ends(Dirty(e)) /\ UNCHANGED leftover
                     /\ turn' \in {"leftover", "prompt"}
                     /\ UNCHANGED <<cacheVars, probeVars, owed, askVars>>

(* approvePeer, of a peer not in the trust ring, and persistTrust.         *)
MuFree == approveMu = None
Ask(x) == /\ pc[Host] = "ready"
          /\ stage[x] = "new"
          /\ MuFree
          /\ approveMu' = x
          /\ shown' = x
          /\ stage' = [stage EXCEPT ![x] = "asked"]
          /\ ahead' = IF SaysYes THEN ahead \cup {x} ELSE ahead
          /\ UNCHANGED <<cacheVars, probeVars, ttyVars, said>>

Decide(x, outcome) == /\ stage' = [stage EXCEPT ![x] = outcome]
                      /\ approveMu' = None

PromptReads(x) ==
  /\ stage[x] \in {"asked", "label"}
  /\ leftover[Host] = 0 \/ turn = "prompt"
  /\ \E e \in Lines :
       /\ FirstLine(e) /\ LineTaken(e)
       /\ LET line == IF Dirty(e) THEN "garbled" ELSE tty[Host][e].text IN
            \/ stage[x] = "label" /\ Decide(x, "admitted")
            \/ stage[x] = "asked" /\ line = "a" /\ Decide(x, "admitted")
            \/ stage[x] = "asked" /\ line \notin Yes /\ Decide(x, "rejected")
            \/ /\ stage[x] = "asked" /\ line = "t"
               /\ stage' = [stage EXCEPT ![x] = "label"]
               /\ UNCHANGED approveMu
  /\ turn' \in {"leftover", "prompt"}
  /\ UNCHANGED <<cacheVars, probeVars, owed, leftover, shown, said, ahead>>

----------------------------------------------------------------------------------
ProbeStep(p) == Detect(p) \/ Redetection(p) \/ ColumnRead(p) \/ Timeout(p)
                \/ SaveTruncate(p) \/ SaveWrite(p) \/ LeftoverReadsRaw(p)
PromptStep(x) == Ask(x) \/ PromptReads(x)
TerminalNext ==
  \/ \E p \in Procs : ProbeStep(p) \/ Reports(p) \/ TypesKey(p)
  \/ TypesLine \/ LeftoverReadsLine
  \/ \E x \in Peers : PromptStep(x)

TerminalSpec == TerminalInit /\ [][TerminalNext]_terminalVars

(* Goroutines run, a terminal that answers does so sometime, and the       *)
(* operator answers what he is shown.                                      *)
TerminalFairness ==
  /\ \A p \in Procs : WF_terminalVars(ProbeStep(p)) /\ WF_terminalVars(Reports(p))
  /\ WF_terminalVars(Answers) /\ WF_terminalVars(LeftoverReadsLine)
  /\ \A x \in Peers : WF_terminalVars(PromptStep(x))
TerminalFairSpec == TerminalSpec /\ TerminalFairness

----------------------------------------------------------------------------------
(* A profile is cached as capable only if a terminal of it answered that   *)
(* the glyph took one cell, whichever query read which of its answers and  *)
(* however saves of several commands overlap (probeNerdFonts, save).       *)
GlyphWasMeasured ==
  \A k \in Profiles : cache[k] = "yes" =>
    \E p \in Procs : profile[p] = k /\ width[p] = 1 /\ answers[p]

(* A peer gets in only by a line that says so and that the operator typed  *)
(* while that peer was shown, or before and that was still unread when it  *)
(* was: a line typed ahead, or a second Enter, answers the next question.  *)
(* One that was typed while another peer was shown and is read by its      *)
(* prompt or by a leftover lets nobody else in; and one peer is asked about*)
(* at a time (TerminalOK, approvePeer).                                    *)
AdmittedAsAnswered ==
  /\ TerminalOK
  /\ \A x \in Peers : stage[x] \in {"label", "admitted"} => x \in said \cup ahead

(* Of an unknown peer you see its fingerprint and choose: nobody gets in by*)
(* what was typed before.  approvePeer reads what is queued all the same.  *)
AnsweredWhenShown ==
  \A x \in Peers : stage[x] \in {"label", "admitted"} => x \in said

(* On a terminal that answers, be it late but before the operator has      *)
(* typed, the goroutine a probe left behind keeps no prompt from ending and*)
(* no other peer from being asked about (cursorColumn, approvePeer).       *)
AnswersFirst == answers[Host] /\ [](owed[Host] # <<>> => ~HasLine)
PromptsEnd ==
  AnswersFirst => \A x \in Peers : stage[x] = "new" ~> stage[x] \in {"admitted", "rejected"}
=================================================================================
