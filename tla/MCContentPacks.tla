--------------------------- MODULE MCContentPacks ---------------------------
EXTENDS ContentPacks, TLC

(* An update of the first pack replaces a file, keeps one and drops one.    *)
(* The second pack needs the first; its second release no longer does, and *)
(* needs a newer game.                                                     *)
MCReleases ==
    [base |-> <<[directory |-> "Base", minimum |-> 0,
                 depends |-> [game |-> {1, 2}], files |-> [xml |-> 1, data |-> 1, map |-> 1]],
                [directory |-> "Base", minimum |-> 2,
                 depends |-> [game |-> {1, 2}], files |-> [xml |-> 2, data |-> 1, map |-> 0]]>>,
     more |-> <<[directory |-> "More", minimum |-> 1,
                 depends |-> [game |-> {1, 2}, classic |-> {1}, base |-> {1, 2}],
                 files |-> [xml |-> 1, data |-> 1, map |-> 0]],
                [directory |-> "Other", minimum |-> 2,
                 depends |-> [game |-> {2}], files |-> [xml |-> 2, data |-> 2, map |-> 0]]>>]

ThreadSymmetry == Permutations(Threads)

-----------------------------------------------------------------------------
(* Versions to compare: the example of semver.org with numbers of one and  *)
(* two digits, build metadata, and texts that are no versions.             *)
One == <<49>>
Two == <<50>>
Eleven == <<49, 49>>
Alpha == <<97>>
Beta == <<98>>
Beta1 == <<98, 49>>
Dash == <<45>>

Release3(x, y, z) == [core |-> <<x, y, z>>, prerelease |-> <<>>, build |-> <<>>]
Of(prerelease) == [Release3(One, Zero, Zero) EXCEPT !.prerelease = prerelease]

Sample ==
    {Release3(One, Zero, Zero), Release3(Two, Zero, Zero), Release3(Eleven, Zero, Zero),
     Release3(One, Two, Zero), Release3(One, Eleven, Zero), Release3(One, One, One),
     Of(<<Alpha>>), Of(<<Alpha, One>>), Of(<<Alpha, Beta>>), Of(<<Alpha, Beta, Two>>),
     Of(<<Beta>>), Of(<<Beta, Two>>), Of(<<Beta, Eleven>>), Of(<<Beta1>>), Of(<<Dash>>),
     Of(<<Zero>>), Of(<<Eleven>>),
     [Of(<<>>) EXCEPT !.build = <<<<Alpha>>>>], [Of(<<Two>>) EXCEPT !.build = <<<<Zero, One>>>>]}
Unparsable ==
    {Release3(<<48, 49>>, Zero, Zero), Release3(One, Alpha, Zero), Of(<<<<>>>>), Of(<<<<48, 49>>>>),
     [Of(<<>>) EXCEPT !.build = <<<<Alpha>>, <<Alpha>>>>]}

MCTexts == Sample \cup Unparsable

ASSUME SampleParses == \A v \in Sample : Parses(v)
ASSUME UnparsableDoesNot == \A v \in Unparsable : ~Parses(v)
=============================================================================
