---------------------------- MODULE MCDarmaTasks ----------------------------
(***************************************************************************)
(* Instances of DarmaTasks for TLC: programs and sets of capture cases.    *)
(***************************************************************************)
EXTENDS DarmaTasks

\* Requests, by the code's abbreviations: scheduling, then immediate
\* permissions (None, Read, Modify).
MM == Perms(Modify, Modify)
MN == Perms(Modify, None)
MR == Perms(Modify, Read)
NM == Perms(None, Modify)
RR == Perms(Read, Read)

Asks(task, requests) == [task : {task}, request : requests]

(***************************************************************************)
(* Programs.                                                               *)
(***************************************************************************)
\* Two levels of tasks that read, write, schedule or branch.
AnyProgram ==
  {ask \in [task : Tasks \ {Root}, request : {MM, RR, MN, MR, NM}] :
     Len(ask.task) = 2 => ask.request \in {MM, RR, MN}}

\* Readers and writers of the top level after a chain of tasks, three levels
\* deep, that leave the writing to the task below.
LevelsProgram ==
  Asks(<<1>>, {MN, RR}) \cup Asks(<<2>>, {MM, RR}) \cup Asks(<<3>>, {MM, RR})
    \cup Asks(<<1, 1>>, {MN, MR, MM}) \cup Asks(<<1, 2>>, {MM, RR})
    \cup Asks(<<1, 1, 1>>, {MM, RR})

\* A task that reads, writes and reads in child tasks, then a writer.
ReadWriteRead ==
  Asks(<<1>>, {MM}) \cup Asks(<<1, 1>>, {RR}) \cup Asks(<<1, 2>>, {MM})
    \cup Asks(<<1, 3>>, {RR}) \cup Asks(<<2>>, {MM})

\* A task whose conditional writes, then a reader.
WriteInConditional ==
  Asks(<<1>>, {MM}) \cup Asks(<<1, 1>>, {MR}) \cup Asks(<<1, 1, 1>>, {MM})
    \cup Asks(<<2>>, {RR})

(***************************************************************************)
(* Capture cases.                                                          *)
(***************************************************************************)
AllCases == CaptureCases

\* The cases with which input flows alone tell a backend enough.
FlowCases == CaptureCases \ {ScheduleModifyFromModifyRead}

\* The cases with which anti-flows tell a backend enough: without those
\* that leave the continuation of a MM source without an anti-in flow.
AntiFlowCases == CaptureCases \ {ReadFromModify, ModifyReadFromModify}
=============================================================================
