----------------------------- MODULE FileTimes ------------------------------
(***************************************************************************)
(* Times that are kept as modification times of files (FileUtil:           *)
(* getModTime(), setModTime()): a product's time of creation is that of    *)
(* the publisher's file, a subscriber gives it to its own file, and what   *)
(* has been received or processed last is known by the time of a file      *)
(* that holds nothing else (node/LastProd.cpp).                            *)
(*                                                                         *)
(* Times are counted in the clock's units from the epoch on; a second has  *)
(* Second of them.                                                         *)
(***************************************************************************)
EXTENDS Integers

CONSTANTS
  Second,   \* Units of SysClock in a second
  Grain,    \* Units that the subscriber's file system tells apart: a divisor of Second
  KeepTime, \* RunPar::prodKeepTime of the publisher, a positive number
  MinTime,  \* SysTimePoint::min(): earlier than any file's
  MaxClock  \* Bound: time on the clock, which is later than KeepTime after the epoch

VARIABLES
  clock,     \* SysClock::now()
  userFile,  \* timespec of the publisher's file, as the user left it
  creation,  \* ProdInfo::Impl::creationTime; MinTime if there is none
  product,   \* timespec of the subscriber's file
  savedTime, \* timespec of LastProdImpl's file
  recalled,  \* What recall() has returned
  refused    \* Has setModTime() thrown?

vars == <<clock, userFile, creation, product, savedTime, recalled, refused>>

\* SysClock::to_time_t(): toward zero
ToTimeT(time) == IF time >= 0 THEN time \div Second ELSE -((-time) \div Second)

\* Mutant of GetModTime: whole seconds only
GetSeconds(spec) == spec.sec * Second
GetModTime(spec) == spec.sec * Second + spec.nsec

SetModTime(time) == [sec |-> ToTimeT(time), nsec |-> time - ToTimeT(time) * Second]

\* utimensat(2): what it accepts, and what the file system makes of it
IsAccepted(spec) == spec.nsec \in 0..Second - 1
Kept(spec) == [spec EXCEPT !.nsec = Grain * (spec.nsec \div Grain)]
\* What the operating system itself sets
Timespec(time) == [sec |-> time \div Second, nsec |-> time % Second]

-----------------------------------------------------------------------------

Init ==
  /\ clock = KeepTime /\ userFile = Timespec(0) /\ creation = MinTime /\ product = Timespec(0)
  /\ savedTime = Timespec(0) /\ recalled = MinTime /\ refused = FALSE

Pass ==
  /\ clock < MaxClock /\ clock' = clock + 1
  /\ UNCHANGED <<userFile, creation, product, savedTime, recalled, refused>>

\* The user's file may be of any time.
Touch(time) ==
  /\ userFile' = Timespec(time) /\ creation' = MinTime
  /\ UNCHANGED <<clock, product, savedTime, recalled, refused>>

\* Repository::Impl::tryAddFile(): the file is removed instead.
TooOld(time) == time + KeepTime < clock
Publish ==
  /\ creation = MinTime /\ ~ TooOld(GetModTime(userFile))
  /\ creation' = GetModTime(userFile)
  /\ UNCHANGED <<clock, userFile, product, savedTime, recalled, refused>>

\* SubRepo::Impl::tryFinish(): ProdFile::setModTime(), then LastProd::save() of what the file has got.
Save(time) == savedTime' = Kept(SetModTime(time))
TryFinish ==
  /\ creation # MinTime
  /\ IF IsAccepted(SetModTime(creation))
     THEN /\ product' = Kept(SetModTime(creation))
          /\ Save(GetModTime(product')) /\ UNCHANGED refused
     ELSE refused' = TRUE /\ UNCHANGED <<product, savedTime>>
  /\ UNCHANGED <<clock, userFile, creation, recalled>>

\* The file may have been removed.
Recall == recalled' \in {GetModTime(savedTime'), MinTime}
\* LastProdImpl(): open(2) with O_TRUNC makes it a file of now.
Restart ==
  /\ savedTime' = Kept(Timespec(clock)) /\ Recall
  /\ UNCHANGED <<clock, userFile, creation, product, refused>>

Next == Pass \/ (\E time \in -KeepTime..MaxClock : Touch(time)) \/ Publish \/ TryFinish \/ Restart
Spec == Init /\ [][Next]_vars

-----------------------------------------------------------------------------

TypeOK ==
  /\ clock \in KeepTime..MaxClock /\ recalled <= clock /\ refused \in BOOLEAN
  /\ \A spec \in {userFile, product, savedTime} : spec.nsec \in 0..Second - 1

\* A publisher sends only times that a file can be given, because what is older goes; a
\* subscriber's file gets that of the publisher's, as far as the file system keeps it, and this
\* is what is saved, so that the file is never taken for one that came later (FileUtil:
\* setModTime(), SubRepo: tryFinish(), "the two might have different resolutions").
TimesAreKept ==
  [][/\ ~ refused'
     /\ product' # product => product' = Kept(userFile) /\ savedTime' = product']_vars
=============================================================================
