---------------------------- MODULE HelloAdaptive ----------------------------
(***************************************************************************)
(* The application apps/hello-adaptive/src/main.cpp on top of the logger   *)
(* registry: main registers its context, turns the Result into an exit     *)
(* status, looks the context up again, logs twice and returns, which runs  *)
(* the registry's destructor.                                              *)
(***************************************************************************)
EXTENDS LoggerRegistry

CONSTANTS
    main,   \* the thread of the process that calls
    context \* HELLO, its description and kInfo

\* LogLevel::kInfo, c_threshold of main.cpp.
kInfo == 4

\* main registers its one ID once.
ASSUME MainAssumption ==
    /\ main \in Threads
    /\ context \in Inputs /\ context.threshold = kInfo /\ context.id \in UniqueIds

VARIABLES
    app,   \* where main is, or its exit status
    output \* the records that reached the console, in order

allVars == <<vars, app, output>>

HelloInit == Init /\ app = "Start" /\ output = <<>>

\* main waits for a call to return.
Returned == process = "running" /\ pc[main] = "Idle"

\* Initialize: TryCreateLogger.
Initialize ==
    /\ app = "Start"
    /\ CallRegister(main, context)
    /\ app' = "Initialize"
    /\ UNCHANGED output

\* MUTANT: main goes on to log whatever Initialize reports.
LookUp_Unchecked ==
    /\ app = "Initialize" /\ Returned
    /\ CallFind(main, context)
    /\ app' = "LookUp"
    /\ UNCHANGED output

\* Initialize has succeeded: CreateLogger.
LookUp ==
    /\ app = "Initialize" /\ Returned
    /\ local[main].result # kOperationFailed
    /\ CallFind(main, context)
    /\ app' = "LookUp"
    /\ UNCHANGED output

\* Initialize has failed: its error is main's exit status.
Fail ==
    /\ app = "Initialize" /\ Returned
    /\ local[main].result = kOperationFailed
    /\ app' = "EXIT_FAILURE"
    /\ UNCHANGED <<vars, output>>

\* LogInfo and Log write a record or, if anything fails below, do not.
Record(from, record, to) ==
    /\ app = from /\ Returned
    /\ app' = to
    /\ output' \in {output, Append(output, [context |-> contents[local[main].result].id,
                                            record |-> record])}
    /\ UNCHANGED vars

LogStartup == Record("LookUp", "Application startup", "Greet")
LogGreeting == Record("Greet", "HELLO_GREETING", "EXIT_SUCCESS")

\* The registry works on main's call.
RegistryStep ==
    /\ Progress(main) \/ RegisterLockFails(main) \/ MutexTerminates(main)
    /\ UNCHANGED <<app, output>>

\* main has returned.
Shutdown ==
    /\ app \in {"EXIT_SUCCESS", "EXIT_FAILURE"}
    /\ Exit \/ DestroyHead \/ DestroyMutex
    /\ UNCHANGED <<app, output>>

HelloNext ==
    \/ Initialize \/ LookUp \/ Fail \/ LogStartup \/ LogGreeting
    \/ RegistryStep \/ Shutdown
    \/ Ended /\ UNCHANGED <<app, output>>

\* The one thread runs.
HelloFairness == WF_allVars(HelloNext)

HelloSpec == HelloInit /\ [][HelloNext]_allVars /\ HelloFairness

-----------------------------------------------------------------------------
(* Properties *)

\* The precondition of CreateLogger holds by the time main calls it, and its
\* threshold is defined: only a failing mutex can end this program abnormally.
OnlyTheMutexTerminates ==
    process \notin {"threshold terminated", "lookup terminated"}

\* The program ends, after shutdown or in std::terminate.
HelloEnds == <>(process \in Terminated \cup {"exited"})
=============================================================================
