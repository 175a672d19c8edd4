------------------------------ MODULE Registry ------------------------------
(***************************************************************************)
(* Detector discovery in redactguard_core/detectors/registry.py, by the    *)
(* threads of the web application's pool at once.  get_detectors() imports *)
(* the packages of the built-in detectors and the plugins; importing one   *)
(* runs the @register_detector decorators of its modules, which append to  *)
(* a list all threads share.                                               *)
(*                                                                         *)
(* Imports are Python's, modelled from what registry.py relies on: a       *)
(* package that another thread is importing is waited for, one that was    *)
(* imported is not run again, and one whose import raises is forgotten     *)
(* while what it registered, and the modules it got through, stay.         *)
(***************************************************************************)
EXTENDS Integers, Sequences, Functions

CONSTANTS
    Threads,     \* threads of _EXECUTOR
    Packages,    \* _BUILTIN_MODULES, then those of the plugins' entry points
    Modules,     \* package -> the modules it imports, in order
    Registers,   \* module -> its classes, in order: <<PII type, detector>>
    Calls,       \* thread -> its calls of run_detectors(): lists of enabled types
    MaxFailures  \* bound on what raises

Registrations == UNION {Range(Registers[m]) : m \in DOMAIN Registers}
Types == {r[1] : r \in Registrations}

\* Where the classes stand: package, module and class, each by its index, and
\* in that order.
ClassPlaces ==
    UNION {UNION {{<<p, m, k>> : k \in DOMAIN Registers[Modules[Packages[p]][m]]} :
                      m \in DOMAIN Modules[Packages[p]]} : p \in DOMAIN Packages}

ClassAt(x) == Registers[Modules[Packages[x[1]]][x[2]]][x[3]]

Before(x, y) ==
    \/ x[1] < y[1]
    \/ x[1] = y[1] /\ x[2] < y[2]
    \/ x[1] = y[1] /\ x[2] = y[2] /\ x[3] < y[3]

\* The packages and modules are lists of names, which differ from one another.
NamesAreKnown ==
    /\ Packages \in Seq(DOMAIN Modules)
    /\ Modules \in [DOMAIN Modules -> Seq(DOMAIN Registers)]
    /\ DOMAIN Modules \cap DOMAIN Registers = {}

\* A class is decorated where it is defined, and its file is imported by one
\* package.
ClassesAreListed ==
    /\ \A m \in DOMAIN Registers : Registers[m] \in Seq(Registrations)
    /\ \A r \in Registrations : r = <<r[1], r[2]>>
    /\ \A x, y \in ClassPlaces : ClassAt(x) = ClassAt(y) => x = y

\* A type without any class raises in run_detectors(), in Detectors.
CallsAskForTypes ==
    /\ \A t \in Threads : Calls[t] \in Seq(Seq(Types) \ {<<>>})
    /\ MaxFailures \in Nat

ASSUME DiscoveryAssumption == NamesAreKnown /\ ClassesAreListed /\ CallsAskForTypes

VARIABLES
    registry,   \* _REGISTRY: PII type -> the detectors registered for it
    imported,   \* package or module -> "no", "importing" or "yes", as in sys.modules
    thread,     \* thread -> the calls it still has to make, and where it is
    seen,       \* what calls of get_detectors() have returned: [type, list]
    failures    \* counted against its bound

discoveryVars == <<registry, imported, thread, seen, failures>>

\* About to look at the first package.
Begun(runs) == [runs |-> runs, step |-> "discover", at |-> 1, part |-> 1, class |-> 1]

DiscoveryInit ==
    /\ registry = [type \in Types |-> <<>>]
    /\ imported = [m \in Range(Packages) \cup DOMAIN Registers |-> "no"]
    /\ thread = [t \in Threads |-> Begun(Calls[t])]
    /\ seen = {}
    /\ failures = 0

-----------------------------------------------------------------------------
\* Thread t, in a call of get_detectors(), has come to this package.
Discovering(t) ==
    /\ thread[t].runs # <<>> /\ thread[t].step = "discover"
    /\ thread[t].at <= Len(Packages)

Package(t) == Packages[thread[t].at]

\* Mutant of Known: a package is known as soon as its import has begun.
KnownEarly(p) == imported[p] # "no"

Known(p) == imported[p] = "yes"

SkipPackage(t) ==
    /\ Discovering(t) /\ Known(Package(t))
    /\ thread' = [thread EXCEPT ![t].at = @ + 1]
    /\ UNCHANGED <<registry, imported, seen, failures>>

\* Mutant of BeginImport: it does not show in sys.modules.
BeginUnseen(t) ==
    /\ Discovering(t) /\ imported[Package(t)] = "no"
    /\ thread' = [thread EXCEPT ![t].step = "import", ![t].part = 1, ![t].class = 1]
    /\ UNCHANGED <<registry, imported, seen, failures>>

\* Nobody is importing the package: this thread does.
BeginImport(t) ==
    /\ Discovering(t) /\ imported[Package(t)] = "no"
    /\ imported' = [imported EXCEPT ![Package(t)] = "importing"]
    /\ thread' = [thread EXCEPT ![t].step = "import", ![t].part = 1, ![t].class = 1]
    /\ UNCHANGED <<registry, seen, failures>>

Importing(t) == thread[t].step = "import"
Parts(t) == Modules[Package(t)]
InModule(t) == Importing(t) /\ thread[t].part <= Len(Parts(t))
Module(t) == Parts(t)[thread[t].part]
Classes(t) == Registers[Module(t)]

\* An earlier import of the package got through this module.
SkipModule(t) ==
    /\ InModule(t) /\ imported[Module(t)] = "yes"
    /\ thread' = [thread EXCEPT ![t].part = @ + 1]
    /\ UNCHANGED <<registry, imported, seen, failures>>

\* @register_detector(type) on the next class of the module.
Register(t) ==
    /\ InModule(t) /\ imported[Module(t)] = "no"
    /\ thread[t].class <= Len(Classes(t))
    /\ LET r == Classes(t)[thread[t].class]
       IN  registry' = [registry EXCEPT ![r[1]] = Append(@, r[2])]
    /\ thread' = [thread EXCEPT ![t].class = @ + 1]
    /\ UNCHANGED <<imported, seen, failures>>

FinishModule(t) ==
    /\ InModule(t) /\ imported[Module(t)] = "no"
    /\ thread[t].class > Len(Classes(t))
    /\ imported' = [imported EXCEPT ![Module(t)] = "yes"]
    /\ thread' = [thread EXCEPT ![t].part = @ + 1, ![t].class = 1]
    /\ UNCHANGED <<registry, seen, failures>>

FinishImport(t) ==
    /\ Importing(t) /\ ~InModule(t)
    /\ imported' = [imported EXCEPT ![Package(t)] = "yes"]
    /\ thread' = [thread EXCEPT ![t].step = "discover", ![t].at = @ + 1]
    /\ UNCHANGED <<registry, seen, failures>>

\* The call of run_detectors() is over: get_detectors() raised.
Abandon(t) ==
    /\ failures < MaxFailures
    /\ failures' = failures + 1
    /\ thread' = [thread EXCEPT ![t] = Begun(Tail(@.runs))]

\* Mutant of ImportRaises: the import is not taken back.
ImportHangs(t) ==
    /\ Importing(t)
    /\ Abandon(t)
    /\ UNCHANGED <<registry, imported, seen>>

\* A module raises, before or after its decorators ran.
ImportRaises(t) ==
    /\ Importing(t)
    /\ imported' = [imported EXCEPT ![Package(t)] = "no"]
    /\ Abandon(t)
    /\ UNCHANGED <<registry, seen>>

-----------------------------------------------------------------------------
\* All packages are imported: the registered classes are instantiated.
Instantiating(t) == thread[t].runs # <<>> /\ thread[t].at > Len(Packages)

\* Thread t goes on to the next type of its call, or to its next call.
Remaining(runs) ==
    IF Len(Head(runs)) = 1 THEN Tail(runs) ELSE <<Tail(Head(runs))>> \o Tail(runs)

Instantiate(t) ==
    /\ Instantiating(t)
    /\ LET type == Head(Head(thread[t].runs))
       IN  seen' = seen \cup {[type |-> type, list |-> registry[type]]}
    /\ thread' = [thread EXCEPT ![t] = Begun(Remaining(@.runs))]
    /\ UNCHANGED <<registry, imported, failures>>

\* A detector cannot be made or configured.
InstantiateRaises(t) ==
    /\ Instantiating(t)
    /\ Abandon(t)
    /\ UNCHANGED <<registry, imported, seen>>

Proceed(t) ==
    \/ SkipPackage(t) \/ BeginImport(t) \/ SkipModule(t) \/ Register(t)
    \/ FinishModule(t) \/ FinishImport(t) \/ Instantiate(t)

DiscoveryNext == \E t \in Threads : Proceed(t) \/ ImportRaises(t) \/ InstantiateRaises(t)

\* Threads are scheduled, and an import that does not raise ends.
DiscoverySpec ==
    /\ DiscoveryInit
    /\ [][DiscoveryNext]_discoveryVars
    /\ \A t \in Threads : WF_discoveryVars(Proceed(t))

-----------------------------------------------------------------------------
\* The values the state ranges over; a package is being imported exactly while
\* one thread is at it.
DiscoveryTypeOK ==
    /\ registry \in [Types -> Seq({r[2] : r \in Registrations})]
    /\ \A t \in Threads : /\ thread[t].step \in {"discover", "import"}
                          /\ thread[t].at \in 1 .. Len(Packages) + 1
                          /\ thread[t].part \in Nat /\ thread[t].class \in Nat
    /\ failures \in 0 .. MaxFailures
    /\ \A p \in Range(Packages) :
          IF imported[p] = "importing"
          THEN \E t \in Threads : \A u \in Threads : (u = t) = (Importing(u) /\ Package(u) = p)
          ELSE \A t \in Threads : ~(Importing(t) /\ Package(t) = p)

\* The detectors of a type, by their places.
Of(type) == {x \in ClassPlaces : ClassAt(x)[1] = type}

\* No thread ever detects with half an ensemble, also while another one is
\* importing it, or after an import that raised half way: get_detectors()
\* returns every detector of the type, each first behind all that are defined
\* before it, the order vote() depends on; and it returns the same list each
\* time, so that a draft is verified with the very detectors the source was
\* searched with (ADR-0002).  A detector is in the list twice only if an import
\* raised behind it.
OneEnsemble ==
    \A c, d \in seen :
        /\ Range(c.list) = {ClassAt(x)[2] : x \in Of(c.type)}
        /\ \A x, y \in Of(c.type) : Before(x, y) =>
              \A j \in DOMAIN c.list : c.list[j] = ClassAt(y)[2] =>
                  \E i \in 1 .. j - 1 : c.list[i] = ClassAt(x)[2]
        /\ failures = 0 => IsInjective(c.list)
        /\ c.type = d.type => c.list = d.list

\* No thread waits forever for a package, whoever imports it and however that
\* ends.
CallsEnd == \A t \in Threads : <>(thread[t].runs = <<>>)
=============================================================================
