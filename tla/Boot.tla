---------------------------------- MODULE Boot ----------------------------------
(***************************************************************************)
(* From the first C code to the end of the program: alt_load, alt_main,    *)
(* the constructors, main, exit and _exit, kill, and what an instruction   *)
(* exception does on the way.  The settings of the board support package   *)
(* choose which parts there are; a run may end early, because a            *)
(* constructor, main or a destructor calls exit or kill.                   *)
(***************************************************************************)
EXTENDS Integers, Sequences, SequencesExt, FiniteSets

CONSTANTS Objects,      \* static objects: entries of the list of constructors
          Builds,       \* combinations of settings that are explored
          Signals       \* classes of signals: see ALT_KILL
ASSUME BootAssumption ==
  /\ Objects \in Nat
  /\ Builds \subseteq [cplusplus : BOOLEAN, clean_exit : BOOLEAN, may_exit : BOOLEAN,
                       direct : BOOLEAN, copied : BOOLEAN]
  /\ Signals \subseteq {"null", "terminating", "ignored", "other"}

VARIABLES build,        \* the settings
          stage,
          ram,          \* sections whose contents are in RAM
          up,           \* parts that are initialised
          built, torn,  \* objects constructed and destructed, in order
          atexit,       \* whether _do_dtors is registered
          handler,      \* whether an instruction exception handler is registered
          errno         \* of the last kill that returned

bootVars == <<build, stage, ram, up, built, torn, atexit, handler, errno>>

Sections == {"rwdata", "exceptions", "rodata"}

BootInit ==
  /\ build \in Builds
  /\ stage = "load" /\ ram = (IF build.copied THEN {} ELSE Sections)
  /\ up = {} /\ built = <<>> /\ torn = <<>> /\ atexit = FALSE
  /\ handler = FALSE /\ errno = "none"

-----------------------------------------------------------------------------
(* alt_load: a section whose addresses differ is copied. *)

CopySection(section) ==
  /\ stage = "load" /\ section \notin ram
  /\ section = "rwdata" \/ (section = "exceptions" /\ "rwdata" \in ram)
       \/ (section = "rodata" /\ "exceptions" \in ram)
  /\ ram' = ram \union {section}
  /\ UNCHANGED <<build, stage, up, built, torn, atexit, handler, errno>>
Loaded ==
  /\ stage = "load" /\ ram = Sections
  /\ stage' = "irq"
  /\ UNCHANGED <<build, ram, up, built, torn, atexit, handler, errno>>

-----------------------------------------------------------------------------
(* alt_main. *)

AfterDevices == IF ~build.direct THEN "redirect"
                ELSE IF build.cplusplus THEN "constructors" ELSE "main"

Part(here, part, then) ==
  /\ stage = here /\ stage' = then /\ up' = up \union {part}
  /\ UNCHANGED <<build, ram, built, torn, atexit, handler, errno>>
Initialise ==
  \/ Part("irq", "interrupts", "os")
  \/ Part("os", "os", "semaphore")
  \/ Part("semaphore", "file lock", "devices")
  \/ Part("devices", "devices", AfterDevices)
  \/ Part("redirect", "stdio", IF build.cplusplus THEN "constructors" ELSE "main")

\* _do_ctors: from the end of the list to its beginning.
Construct ==
  /\ stage = "constructors" /\ Len(built) < Objects
  /\ built' = Append(built, Objects - Len(built))
  /\ UNCHANGED <<build, stage, ram, up, torn, atexit, handler, errno>>
Constructed ==
  /\ stage = "constructors" /\ Len(built) = Objects
  /\ stage' = "main"
  /\ atexit' = (build.clean_exit /\ build.may_exit)
  /\ UNCHANGED <<build, ram, up, built, torn, handler, errno>>

-----------------------------------------------------------------------------
(* The end.  exit runs what atexit has registered and then _exit; without a
   clean exit the two are the same. *)

RunsProgram == stage \in {"constructors", "main", "destructors"}

\* Mutant of exit: destructors run even if they were never registered.
exit_Always == IF build.clean_exit THEN "destructors" ELSE "spinning"
exit == IF atexit THEN "destructors" ELSE "spinning"

\* main returns; without exit() the startup code is left with nowhere to go.
MainReturns ==
  /\ stage = "main"
  /\ IF build.may_exit THEN stage' = exit /\ up' = up \ {"stdout"}
                          ELSE stage' = "returned" /\ UNCHANGED up
  /\ UNCHANGED <<build, ram, built, torn, atexit, handler, errno>>
Exits ==
  /\ stage \in {"constructors", "main"} /\ build.may_exit
  /\ stage' = exit
  /\ UNCHANGED <<build, ram, up, built, torn, atexit, handler, errno>>

\* _do_dtors goes through its list in the same direction as _do_ctors.
Destruct ==
  /\ stage = "destructors" /\ Len(torn) < Objects
  /\ torn' = Append(torn, Objects - Len(torn))
  /\ UNCHANGED <<build, stage, ram, up, built, atexit, handler, errno>>
ALT_EXIT ==
  /\ stage = "destructors" /\ Len(torn) = Objects
  /\ stage' = "spinning"
  /\ UNCHANGED <<build, ram, up, built, torn, atexit, handler, errno>>

\* Only the program itself, or all programs, can be signalled: pid <= 0.
ALT_KILL(own, sig) ==
  /\ RunsProgram
  /\ IF own /\ sig = "terminating" THEN stage' = "spinning" /\ UNCHANGED errno
     ELSE /\ errno' = (IF ~own THEN "ESRCH" ELSE IF sig = "other" THEN "EINVAL" ELSE errno)
          /\ UNCHANGED stage
  /\ UNCHANGED <<build, ram, up, built, torn, atexit, handler>>

-----------------------------------------------------------------------------
(* Exceptions of instructions, when their interface is included: a handler says
   whether the instruction is issued again or skipped; without one the processor
   stops in the debugger or hangs. *)

alt_instruction_exception_register(h) ==
  /\ RunsProgram /\ handler' = h
  /\ UNCHANGED <<build, stage, ram, up, built, torn, atexit, errno>>
alt_instruction_exception_entry ==
  /\ RunsProgram /\ ~handler
  /\ stage' = "hung"
  /\ UNCHANGED <<build, ram, up, built, torn, atexit, handler, errno>>

BootNext ==
  \/ \E section \in Sections : CopySection(section)
  \/ Loaded \/ Initialise \/ Construct \/ Constructed
  \/ MainReturns \/ Exits \/ Destruct \/ ALT_EXIT
  \/ \E own \in BOOLEAN, sig \in Signals : ALT_KILL(own, sig)
  \/ \E h \in BOOLEAN : alt_instruction_exception_register(h)
  \/ alt_instruction_exception_entry
-----------------------------------------------------------------------------
\* Whatever calls exit or kill, and whenever: a constructor or main runs only with
\* every section in place, the devices initialised and the standard streams on them;
\* and a destructor runs only when all objects were constructed, so that leaving from
\* a constructor destroys none.
ProgramFindsItsWorld ==
  /\ RunsProgram => ram = Sections /\ {"interrupts", "file lock", "devices"} \subseteq up
                    /\ (build.direct \/ "stdio" \in up)
  /\ torn # <<>> => Len(built) = Objects
=============================================================================
