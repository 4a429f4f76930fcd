-------------------------- MODULE MCZygiskContext --------------------------
\* Small instances of ZygiskContext for TLC.
EXTENDS ZygiskContext

\* Replies of zygiskd: nothing (its answer today), one flag of the denylist
\* mask, the mask, and the mask together with a flag outside it.
MCInfoReplies ==
    { {}, {"ProcessOnDenyList"}, UNMOUNT_MASK, UNMOUNT_MASK \cup {"ProcessGrantedRoot"} }
FewReplies == { {}, UNMOUNT_MASK \cup {"ProcessGrantedRoot"} }
=============================================================================
