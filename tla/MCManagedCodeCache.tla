-------------------------- MODULE MCManagedCodeCache --------------------------
(* Two pages of two addresses.  Methods f and g span both and use the same      *)
(* memory in turn; the precompiled function is at the last address.             *)
(* One application thread compiles, loads and is sampled.                       *)
EXTENDS ManagedCodeCache

CONSTANT t1

MCProcs == {<<t1, "code">>, <<t1, "signal">>, <<"resolver", "code">>}
MCMutexes == {<<"pagesMutex">>, <<"modulesMutex">>, <<"page", 0>>, <<"page", 1>>}
MCNoMutex == <<"none">>
MCCode == {[func |-> "f", ranges |-> << <<1, 2>> >>], [func |-> "g", ranges |-> << <<1, 2>> >>]}
MCModule == <<3, 3>>
=============================================================================
