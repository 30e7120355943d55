----------------------------- MODULE Sysroot -----------------------------
(***************************************************************************)
(* src/linux/sysroot_scripts/install-sysroot.py, the hook that keeps the   *)
(* sysroot image of the checked out revision installed: InstallSysroot of  *)
(* one architecture.  A .stamp with the URL of the image says that nothing *)
(* is to be done.  The script may be killed, or one of its system calls    *)
(* fail, between any two steps.                                            *)
(***************************************************************************)
EXTENDS Checkout, Naturals

CONSTANTS Part,  \* what a tarball holds
          UrlOf  \* the URL of the image each revision asks for

VARIABLES stamp,    \* .stamp
          image,    \* what was extracted: pairs of an URL and a part
          tarball,  \* the downloaded file: good, or another than was asked for
          tries,    \* downloads that raised
          rootPc, rootResult,
          torn      \* history: an rmtree of the sysroot was cut off

sysrootFiles == <<stamp, image, tarball>>
rootVars == <<sysrootFiles, tries, rootPc, rootResult, torn>>

url == UrlOf[revision]
Urls == {UrlOf[r] : r \in Revision}
MaxTries == 3

ASSUME SysrootAssumption ==
  {Missing, Empty} \cap (Urls \cup {"good", "other"}) = {}

ImageOf(u) == {u} \X Part

SysrootInit ==
  /\ stamp = Missing /\ image = {} /\ tarball = Missing
  /\ tries = 0
  /\ rootPc = "idle" /\ rootResult = Missing
  /\ torn = FALSE
-----------------------------------------------------------------------------
\* The script is over.
RootEnds(how) == rootPc' = "idle" /\ rootResult' = how /\ tries' = 0

UpToDate == stamp = url

\* Up to the rmtree.
StartSysroot ==
  /\ rootPc = "idle"
  /\ IF UpToDate THEN RootEnds("ok")
                 ELSE rootPc' = "rmtree" /\ rootResult' = Missing /\ UNCHANGED tries
  /\ UNCHANGED <<sysrootFiles, torn>>

\* shutil.rmtree, one file at a time in any order.
RemoveInstalled ==
  /\ rootPc = "rmtree"
  /\ \/ /\ stamp # Missing
        /\ stamp' = Missing
        /\ UNCHANGED <<image, tarball>>
     \/ /\ \E p \in image : image' = image \ {p}
        /\ UNCHANGED <<stamp, tarball>>
     \/ /\ tarball # Missing
        /\ tarball' = Missing
        /\ UNCHANGED <<stamp, image>>
  /\ UNCHANGED <<tries, rootPc, rootResult, torn>>

\* The rest of rmtree, and os.mkdir.
MakeSysrootDir ==
  /\ rootPc = "rmtree"
  /\ stamp = Missing /\ image = {} /\ tarball = Missing
  /\ rootPc' = "download"
  /\ torn' = FALSE
  /\ UNCHANGED <<sysrootFiles, tries, rootResult>>

\* The body of the try: what was read is the tarball or something else.
Download ==
  /\ rootPc = "download"
  /\ tarball' \in {"good", "other"}
  /\ rootPc' = "verify"
  /\ UNCHANGED <<stamp, image, tries, rootResult, torn>>

\* The except: urlopen, or the write, raised.  The third time it is an Error.
DownloadRaises ==
  /\ rootPc = "download"
  /\ tarball' \in {tarball, Empty, "other"}
  /\ IF tries + 1 = MaxTries THEN RootEnds("failed")
                             ELSE /\ tries' = tries + 1
                                  /\ UNCHANGED <<rootPc, rootResult>>
  /\ UNCHANGED <<stamp, image, torn>>

\* The SHA-1 of the tarball is compared.
Verify ==
  /\ rootPc = "verify"
  /\ IF tarball = "good" THEN rootPc' = "extract" /\ UNCHANGED <<tries, rootResult>>
                         ELSE RootEnds("failed")
  /\ UNCHANGED <<sysrootFiles, torn>>

\* tar xf, part by part.  Another tarball has other parts, or is not one.
Extract ==
  /\ rootPc = "extract"
  /\ tarball = "good"
  /\ \E p \in Part : <<url, p>> \notin image /\ image' = image \cup {<<url, p>>}
  /\ UNCHANGED <<stamp, tarball, tries, rootPc, rootResult, torn>>

\* Mutant: the stamp is written while tar is running.
ExtractNoWait ==
  /\ rootPc = "extract"
  /\ tarball' = Missing
  /\ rootPc' = "stamp"
  /\ UNCHANGED <<stamp, image, tries, rootResult, torn>>

\* check_call returns, and os.remove.
Extracted ==
  /\ rootPc = "extract"
  /\ tarball = "good" => image = ImageOf(url)
  /\ tarball' = Missing
  /\ rootPc' = "stamp"
  /\ UNCHANGED <<stamp, image, tries, rootResult, torn>>

WriteStamp ==
  /\ rootPc = "stamp"
  /\ stamp' = Written(stamp, url)
  /\ IF stamp = Empty THEN RootEnds("ok") ELSE UNCHANGED <<tries, rootPc, rootResult>>
  /\ UNCHANGED <<image, tarball, torn>>

\* Killed, or a system call raises.
RootDies ==
  /\ rootPc # "idle"
  /\ RootEnds("died")
  /\ torn' = (torn \/ rootPc = "rmtree")
  /\ UNCHANGED sysrootFiles

SysrootStep ==
  \/ RemoveInstalled \/ MakeSysrootDir \/ Download \/ DownloadRaises
  \/ Verify \/ Extract \/ Extracted \/ WriteStamp
=============================================================================
