------------------------------- MODULE Loader --------------------------------
(* The modules of the interpreter (kernel/libhaplo/module.c) and the types   *)
(* that they and the user register (object.c), from "use" to the end of the  *)
(* process (init.c). Loading a module loads those it depends on: the whole   *)
(* of it is one step, on a record of what it changes.                        *)
EXTENDS Naturals, Sequences, FiniteSets, SequencesExt

CONSTANTS
  Libraries,     \* the libraries, by directory and name of module
  Here,          \* the current directory; "" stands for the path of the linker
  Paths,         \* the directories that are added to the path
  Modules,       \* names that are asked for
  UserTypes,     \* types registered by hand: [name, display, free, copy], TRUE for a symbol
  HAPLO_MAJOR, HAPLO_MINOR,
  MaxCalls       \* bound on the calls before the end

\* A library: opens (it can be opened), uses (the modules whose symbols it uses), magic,
\* required_major, required_minor, depend, init and fini (0, or what they return), types
\* and functions. No module depends on itself, and none of the linker's path fails.
LoaderAssumption ==
  /\ MaxCalls \in Nat
  /\ \A l \in DOMAIN Libraries : l[1] = "" => Libraries[l].init = 0

VARIABLES
  module_list,   \* loaded modules, the last one first: [name, library, options]
  module_path,   \* directories to search, the last one added first
  opened,        \* how often a library is open
  types,         \* types: [name, module]
  functions,     \* functions: [name, module]
  handles,       \* libraries the user opened himself
  ending,        \* the process ends: modules are unloaded
  requests       \* how many calls were made

loaderVars == <<module_list, module_path, opened, types, functions, handles, ending, requests>>

-----------------------------------------------------------------------------
(* One module, on s: [list, opened, types, functions, status] *)

module_already_loaded(s, name) == \E k \in DOMAIN s.list : s.list[k].name = name

\* Symbols are bound as they are used at first, and all at once when it is opened for good.
CanOpen(s, library, lazy) ==
  /\ library \in DOMAIN Libraries
  /\ Libraries[library].opens
  /\ lazy \/ \A m \in Libraries[library].uses :
               module_already_loaded(s, m) \/ \E l \in handles : l[2] = m

Opened(s, library) == [s EXCEPT !.opened[library] = @ + 1]
Closed(s, library) == [s EXCEPT !.opened[library] = @ - 1]

module_load_check(l) ==
  l.required_major < HAPLO_MAJOR \/ (l.required_major = HAPLO_MAJOR /\ l.required_minor <= HAPLO_MINOR)

\* A type whose name is registered already is refused, and nothing else.
RECURSIVE TypesRegistered(_, _, _)
TypesRegistered(known, names, module) ==
  IF names = <<>> THEN known
  ELSE IF Head(names) = "" \/ \E k \in DOMAIN known : known[k].name = Head(names)
       THEN TypesRegistered(known, Tail(names), module)
       ELSE TypesRegistered(Append(known, [name |-> Head(names), module |-> module]), Tail(names), module)

Registered(s, name, l) ==
  [s EXCEPT !.types = TypesRegistered(@, l.types, name),
            !.functions = @ \o [k \in DOMAIN l.functions |-> [name |-> l.functions[k], module |-> name]],
            !.status = 0]

Failed(s) == [s EXCEPT !.status = 1]

\* Mutant of Listed: the new module goes behind those that were loaded for it.
ListedLast(s, module) == [s EXCEPT !.list = Append(@, module)]

Listed(s, module) == [s EXCEPT !.list = <<module>> \o @]

RECURSIVE module_load_depend(_, _), __haplo_module_load_options(_, _, _)

\* The library opened lazily is closed, and opened again once those it depends on are
\* loaded; it is left open as often as before when it does not start.
module_load_init(s, name, library) ==
  LET l == Libraries[library]
      needed == module_load_depend(s, l.depend)
      again == Closed(needed, library)
  IN  IF ~l.magic \/ ~module_load_check(l) THEN Closed(Failed(s), library)
      ELSE IF needed.status # 0 THEN Closed(needed, library)
      ELSE IF ~CanOpen(again, library, FALSE) THEN Failed(again)
      ELSE IF l.init # 0 THEN Failed(again)
      ELSE Registered(Opened(again, library), name, l)

\* The next directory is tried when there is no such file in this one, and only then.
RECURSIVE Search(_, _, _, _)
Search(s, name, options, dirs) ==
  LET library == <<Head(dirs), name>>
      loaded == module_load_init(Opened(s, library), name, library)
  IN  IF dirs = <<>> THEN Failed(s)
      ELSE IF CanOpen(s, library, TRUE)
      THEN IF loaded.status = 0
           THEN Listed(loaded, [name |-> name, library |-> library, options |-> options])
           ELSE loaded
      ELSE IF library \in DOMAIN Libraries THEN Failed(s)
      ELSE Search(s, name, options, Tail(dirs))

module_load_depend(s, depend) ==
  IF depend = <<>> THEN [s EXCEPT !.status = 0]
  ELSE LET one == IF module_already_loaded(s, Head(depend)) THEN [s EXCEPT !.status = 0]
                  ELSE __haplo_module_load_options(s, Head(depend), FALSE)
       IN  IF one.status # 0 THEN one ELSE module_load_depend(one, Tail(depend))

__haplo_module_load_options(s, name, options) ==
  Search(s, name, options, <<Here>> \o module_path \o <<"">>)

-----------------------------------------------------------------------------
Now == [list |-> module_list, opened |-> opened, types |-> types, functions |-> functions, status |-> 0]

Becomes(s) ==
  /\ module_list' = s.list /\ opened' = s.opened
  /\ types' = s.types /\ functions' = s.functions

Init ==
  /\ module_list = <<>> /\ module_path = <<>> /\ types = <<>> /\ functions = <<>>
  /\ handles = {} /\ ending = FALSE /\ requests = 0
  /\ opened = [l \in DOMAIN Libraries |-> 0]

Request == ~ending /\ requests < MaxCalls /\ requests' = requests + 1

use ==
  /\ Request
  /\ \E name \in Modules, options \in BOOLEAN :
       /\ ~module_already_loaded(Now, name)
       /\ Becomes(__haplo_module_load_options(Now, name, options))
  /\ UNCHANGED <<module_path, handles, ending>>

\* The path is made absolute and a slash at its end goes: it is the directory it names.
haplo_module_path_add ==
  /\ Request
  /\ \E path \in Paths : module_path' = <<path>> \o module_path
  /\ UNCHANGED <<module_list, opened, types, functions, handles, ending>>

\* A library the user opens is never closed.
__haplo_module_library_load ==
  /\ Request
  /\ \E library \in DOMAIN Libraries :
       /\ CanOpen(Now, library, FALSE)
       /\ opened' = [opened EXCEPT ![library] = @ + 1]
       /\ handles' = handles \cup {library}
  /\ UNCHANGED <<module_list, module_path, types, functions, ending>>

\* A type whose functions are not all found is not registered.
__haplo_object_type_register_3 ==
  /\ Request
  /\ handles # {}
  /\ \E type \in UserTypes :
       types' = IF type.display /\ type.free /\ type.copy
                THEN TypesRegistered(types, <<type.name>>, "user") ELSE types
  /\ UNCHANGED <<module_list, module_path, opened, functions, handles, ending>>

\* haplo_fini: types and functions are forgotten first, then modules are unloaded one by one.
haplo_fini ==
  /\ ~ending /\ ending' = TRUE
  /\ types' = <<>> /\ functions' = <<>>
  /\ UNCHANGED <<module_list, module_path, opened, handles, requests>>

\* Some modules cannot be closed before the process ends: "fini" says so.
module_unload ==
  /\ ending /\ module_list # <<>>
  /\ LET module == Head(module_list)
     IN  opened' = IF Libraries[module.library].fini = 0
                   THEN [opened EXCEPT ![module.library] = @ - 1] ELSE opened
  /\ module_list' = Tail(module_list)
  /\ UNCHANGED <<module_path, types, functions, handles, ending, requests>>

Next ==
  \/ use \/ haplo_module_path_add \/ __haplo_module_library_load \/ __haplo_object_type_register_3
  \/ haplo_fini \/ module_unload

-----------------------------------------------------------------------------
Loaded == {module_list[k].name : k \in DOMAIN module_list}

\* A module is loaded once, after those it depends on and those whose symbols it uses:
\* it is finished while they are still there.
DependenciesFirst ==
  \A k \in DOMAIN module_list :
    LET l == Libraries[module_list[k].library]
        behind == {module_list[i].name : i \in (k + 1)..Len(module_list)}
    IN  /\ ToSet(l.depend) \cup (l.uses \ {h[2] : h \in handles}) \subseteq behind
        /\ module_list[k].name \notin behind

\* What was opened for a module that could not be loaded is closed, and only that.
OpenedOnce ==
  ~ending =>
    \A library \in DOMAIN Libraries :
      library \notin handles =>
        opened[library] =
          Cardinality({k \in DOMAIN module_list : module_list[k].library = library})

\* No type and no function is of a module that is not loaded, all functions of those that are
\* loaded are registered, and a type has one name.
NothingLeft ==
  /\ \A k \in DOMAIN types : types[k].module \in Loaded \cup {"user"}
  /\ \A k \in DOMAIN functions : functions[k].module \in Loaded
  /\ \A k \in DOMAIN module_list, f \in UNION {ToSet(Libraries[l].functions) : l \in DOMAIN Libraries} :
       ~ending /\ f \in ToSet(Libraries[module_list[k].library].functions)
         => [name |-> f, module |-> module_list[k].name] \in ToSet(functions)
  /\ \A i, k \in DOMAIN types : types[i].name = types[k].name => i = k
=============================================================================
