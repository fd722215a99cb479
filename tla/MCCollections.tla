--------------------------- MODULE MCCollections ---------------------------
(***************************************************************************)
(* Programs of Collections for TLC.                                        *)
(***************************************************************************)
EXTENDS Collections

MM == Perms(Modify, Modify)
MN == Perms(Modify, None)
RR == Perms(Read, Read)
NM == Perms(None, Modify)
NR == Perms(None, Read)

Unread == [e \in Elements |-> {}]

TwoElements == Range1D(2, 0)
TwoTasks    == Range1D(2, 0)
OneTask     == Range1D(1, 0)

\* Elements on the index tasks of their numbers, as the front end maps them
\* by default or as the program says, the other way round, all on one task.
Straight == DefaultMapping(HandleRange, TwoTasks)
AsGiven  == Several(IdentityMapping(Indices(HandleRange)))

Other(index) == CHOOSE x \in Indices(TwoTasks) : x # index
Swapped ==
  Several(Mapping([x \in Indices(HandleRange) |-> Other(x)],
                  [x \in Indices(TwoTasks) |-> Other(x)]))

AllOnOne ==
  Mapping([x \in Indices(HandleRange) |-> IndexOf(OneTask, 0)],
          [x \in Indices(OneTask) |-> Indices(HandleRange)])

Task(collection, parameter) ==
  [do |-> "task", collection |-> collection, parameter |-> parameter]
Reduction == [do |-> "reduce"]
Work(tasks, mapping, request, shared, readers, body) ==
  [do |-> "work", tasks |-> tasks, mapping |-> FullMapping(mapping, tasks),
   request |-> request, shared |-> shared, readers |-> readers, body |-> body]
Plain(tasks, mapping, request, body) == Work(tasks, mapping, request, NoRequest, Unread, body)

Child(request) == [do |-> "child", of |-> "local", request |-> request]
Reads    == [do |-> "child", of |-> "fetched", request |-> NR]
Allreduces == [do |-> "allreduce"]
Publishes == [do |-> "publish"]
Fetches   == [do |-> "fetch"]

\* Each element is read by the index task of the other one, then written.
Stencil ==
  <<1>> :> Work(TwoTasks, Straight, MM, NoRequest, [e \in Elements |-> {1 - e}],
                <<Publishes, Fetches, Reads, Child(MM)>>)
    @@ <<2>> :> Plain(TwoTasks, Straight, MM, << >>)

\* Each element is written by a task before it is published, so that what is
\* published is still to be produced.
Relay ==
  <<1>> :> Work(TwoTasks, Straight, MM, NoRequest, [e \in Elements |-> {1 - e}],
                <<Child(MM), Publishes, Fetches, Reads, Child(MM)>>)

\* One element is read by the index task of the other one, then both are
\* reduced into both.
Collective ==
  <<1>> :> Work(TwoTasks, Straight, MM, NoRequest, [Unread EXCEPT ![0] = {1}],
                <<Publishes, Fetches, Reads, Allreduces, Child(RR)>>)

\* Works with different mappings, whose index tasks have children.
Phases ==
  <<1>> :> Plain(TwoTasks, Straight, MM, <<Child(MM), Child(RR)>>)
    @@ <<2>> :> Plain(OneTask, AllOnOne, RR, <<Child(RR)>>)
    @@ <<3>> :> Plain(TwoTasks, Swapped, MM, << >>)

\* Works in a task that schedules them.
Nested ==
  <<1>> :> Task(MN, NoRequest)
    @@ <<1, 1>> :> Plain(TwoTasks, Straight, MM, << >>)
    @@ <<1, 2>> :> Plain(TwoTasks, Swapped, RR, << >>)
    @@ <<2>> :> Plain(TwoTasks, Straight, MM, << >>)

\* A parameter that is written, read by all, reduced into, and read again.
Reduced ==
  <<1>> :> Task(NoRequest, NM)
    @@ <<2>> :> Work(TwoTasks, AsGiven, RR, NR, Unread, << >>)
    @@ <<3>> :> Reduction
    @@ <<4>> :> Work(TwoTasks, Straight, MM, RR, Unread, << >>)

AllPrograms == {Stencil, Relay, Collective, Phases, Nested, Reduced}
=============================================================================
