------------------------- MODULE MCComponentChanges -------------------------
(* Products of three components in two releases: every list of the first    *)
(* release against some change of one component in the second, and products *)
(* with a virtual, a forced and an automatic component.                     *)
EXTENDS ComponentChanges

On(c) == [name |-> c, version |-> 0]
AtLeast(c, version) == [name |-> c, version |-> version]

Lists(app, lib, ext) == [app |-> app, lib |-> lib, ext |-> ext]

Firsts == {Lists(a, l, <<>>) :
             a \in {<<>>, <<On("lib")>>, <<AtLeast("lib", 1), On("ext")>>},
             l \in {<<>>, <<On("ext")>>}}

Seconds(first) ==
  {[first EXCEPT !.app = l] : l \in {<<>>, <<On("ext"), AtLeast("lib", 2)>>}}
    \cup {[first EXCEPT !.lib = l] : l \in {<<On("app")>>, <<AtLeast("ext", 2)>>}}
    \cup {[first EXCEPT !.ext = l] : l \in {<<On("lib")>>}}

NoAuto == [c \in Components |-> {}]

Plain == {[dependencies |-> [c \in Components |-> <<first[c], second[c]>>],
           autoDependOn |-> NoAuto, virtual |-> {}, forced |-> {}] :
            <<first, second>> \in UNION {{f} \X Seconds(f) : f \in Firsts}}

\* The requirement between app and lib is turned round in the second release.
Reversed ==
  [dependencies |-> [app |-> <<<<On("lib")>>, <<>>>>,
                     lib |-> <<<<>>, <<On("app")>>>>, ext |-> <<<<>>, <<>>>>],
   autoDependOn |-> NoAuto, virtual |-> {}, forced |-> {}]

Depending == {p \in Plain : p.dependencies["app"][1] # <<>>}
Automatic == {p \in Plain : p.dependencies["app"][1] = <<>>}

Special == {[p EXCEPT !.virtual = {"ext"}] : p \in Depending}
  \cup {[p EXCEPT !.forced = {"app"}] : p \in Depending}
  \cup {[p EXCEPT !.autoDependOn["ext"] = {"app", "lib"}] : p \in Automatic}

\* What goes with lib is needed by something forced.
Guarded ==
  [dependencies |-> [app |-> <<<<On("ext")>>, <<On("ext")>>>>,
                     lib |-> <<<<>>, <<>>>>, ext |-> <<<<>>, <<>>>>],
   autoDependOn |-> [NoAuto EXCEPT !["ext"] = {"lib"}],
   virtual |-> {}, forced |-> {"app"}]

\* The second release of app wants that of lib, which requires something new.
Pulling ==
  [dependencies |-> [app |-> <<<<>>, <<AtLeast("lib", 2)>>>>,
                     lib |-> <<<<>>, <<On("ext")>>>>, ext |-> <<<<>>, <<>>>>],
   autoDependOn |-> NoAuto, virtual |-> {}, forced |-> {}]

MCProducts == Plain \cup Special \cup {Reversed, Guarded, Pulling}
=============================================================================
