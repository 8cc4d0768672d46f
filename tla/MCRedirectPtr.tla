--------------------------- MODULE MCRedirectPtr ----------------------------
(* RedirectPtr on modules with three functions beside main, which starts     *)
(* threads 1 and 2 in a loop; in a few, the profile has three threads.       *)
EXTENDS RedirectPtr

CONSTANTS main, f, g, h

Entry(kind, redirects, loop) == [kind |-> kind, redirects |-> redirects, add |-> 4, loop |-> loop]

Once == <<<<0, 8>>>>
Twice == <<<<0, 16>>, <<4, 32>>>>
Of(ts, lines) == [t \in ts |-> lines]

\* What the profile may have for a function of the threads.
Nothing == <<>>
Both == <<Entry("redirect", (1 :> Once) @@ (2 :> <<<<4, 20>>>>), NoLoop)>>
OneThread == <<Entry("redirect", Of({1}, Once), NoLoop)>>
Loop == <<Entry("redirect", (1 :> Twice) @@ (2 :> <<<<0, 24>>, <<4, 4>>>>), "l")>>
Mixed == <<Entry("redirect", Of({1, 2}, Twice), "l"), Entry("redirect", Of({1, 2}, Once), "l")>>
Three == <<Entry("redirect", Of({1, 2, 3}, Once), NoLoop)>>
Uneven == <<Entry("redirect", Of({1, 2}, Twice), "l"),
            Entry("redirect", Of({1, 2}, Twice \o <<<<8, 48>>>>), "l")>>
Grown == <<Entry("malloc", <<>>, NoLoop)>>

MainProfiles == {Grown, <<Entry("realloc", <<>>, NoLoop)>>, <<Entry("calloc", <<>>, NoLoop)>>,
                 <<Entry("redirect", Of({0}, Once), NoLoop)>>}

Site(in, starter, loop) == [in |-> in, starter |-> starter, loop |-> loop]

Sites == {<<Site(main, f, "m")>>, <<Site(main, f, NoLoop)>>,
          <<Site(main, f, "m"), Site(main, g, "n")>>, <<Site(main, f, "m"), Site(f, h, "l")>>}

Calls == {(main :> {g, NoFunction}) @@ (f :> cf) @@ (g :> cg) @@ (h :> ch) :
            cf \in {{g}, {g, h}, {h}}, cg \in {{}, {g}, {h}, {f, h}},
            ch \in {{}, {g}, {NoFunction}}}

MCPrograms ==
    {[calls |-> c, sites |-> s,
      profile |-> (main :> Grown) @@ (f :> pf) @@ (g :> pg) @@ (h :> ph)] :
       c \in Calls, s \in Sites, pf \in {Nothing, Both},
       pg \in {Nothing, Both, OneThread, Loop, Mixed}, ph \in {Nothing, Both, Loop, Grown}}
    \cup {[calls |-> (main :> {}) @@ (f :> {g}) @@ (g :> {}) @@ (h :> {}),
           sites |-> <<Site(main, f, "m")>>,
           profile |-> (main :> pm) @@ (f :> pf) @@ (g :> pg) @@ (h :> Nothing)] :
            pm \in MainProfiles, pf \in {Nothing, Three}, pg \in {Both, Uneven}}
=============================================================================
