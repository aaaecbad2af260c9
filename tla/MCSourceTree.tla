---------------------------- MODULE MCSourceTree ----------------------------
(***************************************************************************)
(* SourceTree on the packages that differ in how they are extracted.       *)
(***************************************************************************)
EXTENDS SourceTree

\* gcc, and glibc with its ports add-on, extracted and patched inside glibc.
GlibcUnits    == {"gcc", "glibc", "ports"}
GlibcPlaces   == {"gcc", "glibc", "ports"}
GlibcInside   == [d \in GlibcPlaces |-> IF d = "ports" THEN "glibc" ELSE "src"]
GlibcCwd      == GlibcInside
Itself(us)    == [u \in us |-> u]
GlibcUnpacks  == Itself(GlibcUnits)
GlibcPatchCwd == [u \in GlibcUnits |-> IF u = "ports" THEN "glibc" ELSE u]
GlibcPatches  == [u \in GlibcUnits |-> IF u = "gcc" THEN 2 ELSE 1]
Op(o, u)      == [op |-> o, unit |-> u]
GlibcPlan     == <<Op("extract", "gcc"), Op("patch", "gcc"), Op("extract", "glibc"),
                   Op("patch", "glibc"), Op("extract", "ports"), Op("patch", "ports")>>

\* uClibc and its locales.
LocaleUnits   == {"uClibc", "locale"}
LocalePlaces  == {"uClibc"}
LocaleDir     == [u \in LocaleUnits |-> "uClibc"]
LocaleNames   == Itself(LocaleUnits)
LocaleInside  == [d \in LocalePlaces |-> "src"]
LocaleCwd     == [u \in LocaleUnits |-> IF u = "uClibc" THEN "src" ELSE "uClibc"]
LocalePatches == [u \in LocaleUnits |-> IF u = "uClibc" THEN 1 ELSE 0]
LocalePlan    == <<Op("extract", "uClibc"), Op("patch", "uClibc"), Op("link", "locale")>>

\* sqlite: sqlite-autoconf-<version> is extracted, renamed and patched as sqlite-<version>.
SqliteUnits   == {"sqlite"}
SqlitePlaces  == {"sqlite-autoconf", "sqlite"}
SqliteInside  == [d \in SqlitePlaces |-> "src"]
SqliteCwd     == [u \in SqliteUnits |-> "src"]
SqliteUnpacks == [u \in SqliteUnits |-> "sqlite-autoconf"]
SqliteDir     == Itself(SqliteUnits)
SqlitePatches == [u \in SqliteUnits |-> 1]
SqlitePlan    == <<Op("extract", "sqlite"), Op("rename", "sqlite"), Op("patch", "sqlite")>>

\* All of them, one configuration or another.
Or(g, l, q)  == [x \in DOMAIN g \cup DOMAIN l \cup DOMAIN q |->
                  IF x \in DOMAIN g THEN g[x] ELSE IF x \in DOMAIN l THEN l[x] ELSE q[x]]
AllUnits     == GlibcUnits \cup LocaleUnits \cup SqliteUnits
AllPlaces    == GlibcPlaces \cup LocalePlaces \cup SqlitePlaces
AllInside    == Or(GlibcInside, LocaleInside, SqliteInside)
AllCwd       == Or(GlibcCwd, LocaleCwd, SqliteCwd)
AllUnpacks   == Or(GlibcUnpacks, LocaleDir, SqliteUnpacks)
AllDir       == Or(GlibcUnpacks, LocaleDir, SqliteDir)
AllPatchCwd  == Or(GlibcPatchCwd, LocaleDir, SqliteDir)
AllENames    == Or(GlibcUnpacks, LocaleNames, SqliteUnpacks)
AllPNames    == Or(GlibcUnpacks, LocaleNames, SqliteDir)
AllPatches   == Or(GlibcPatches, LocalePatches, SqlitePatches)
AllPlans     == {GlibcPlan, LocalePlan \o SqlitePlan}

\* tz: two tarballs extracted into one directory, made for them.
TzUnits   == {"tzcode", "tzdata"}
TzPlaces  == {"tz"}
TzDir     == [u \in TzUnits |-> "tz"]
TzNames   == Itself(TzUnits)
TzInside  == [d \in TzPlaces |-> "src"]
TzCwd     == [u \in TzUnits |-> "src"]
TzPatches == [u \in TzUnits |-> 0]
TzPlans   == {<<Op("extract", "tzcode"), Op("extract", "tzdata")>>}
=============================================================================
