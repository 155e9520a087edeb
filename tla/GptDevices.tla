------------------------------ MODULE GptDevices ------------------------------
(***************************************************************************)
(* How gpt-utils finds its way over the disks: the disks prepare_boot_update *)
(* works on, the swapped entries array it makes for each of them, and the   *)
(* map of partitions to disks (gpt-utils.cpp).  GptUpdate takes the result  *)
(* as given and looks at crashes and errors; here nothing fails but the     *)
(* resolution of names, and one action is one turn of a loop.               *)
(*                                                                         *)
(* A partition name is the sequence of its parts, such as                   *)
(* <<"cmnlib", "64", "bak">>, so that a name may begin with another one.    *)
(***************************************************************************)
EXTENDS Integers, Sequences, FiniteSets

CONSTANTS
  Luns,       \* the disks
  BlkDevFile, \* the one that an eMMC device has, mmcblk0
  SwapList,   \* PTN_SWAP_LIST, the partitions that may have a "bak" twin
  Layouts,    \* the contents of the disks: functions from Luns to entries arrays
  Unresolved, \* sets of names whose link stat finds and readlink does not read
  PtnLists,   \* lists that gpt_utils_get_partition_map is asked for
  MAX_LUNS    \* length of the list of disks

IsPrefixOf(n, name) == Len(n) <= Len(name) /\ SubSeq(name, 1, Len(n)) = n
Bak(n)      == Append(n, "bak")
Elements(s) == {s[k] : k \in DOMAIN s}
IndexOf(x, s) == CHOOSE k \in DOMAIN s : s[k] = x
NoRepeats(s) == \A j, k \in DOMAIN s : s[j] = s[k] => j = k
Names == Elements(SwapList)

(* A name stands for one partition: it is the name of a link in by-name.    *)
ASSUME DeviceAssumption ==
  /\ BlkDevFile \in Luns
  /\ MAX_LUNS \in Nat /\ Len(SwapList) < MAX_LUNS - 1
  /\ Layouts \subseteq [Luns -> Seq(Seq(STRING))] /\ PtnLists \subseteq Seq(Seq(STRING))
  /\ \A d \in Layouts : \A l, m \in Luns : \A j \in DOMAIN d[l], k \in DOMAIN d[m] :
       d[l][j] = d[m][k] => l = m /\ j = k

VARIABLES
  ufs,     \* the boot device is UFS
  disks,   \* disks[l]: the entries array of the primary GPT of l
  broken,  \* names whose link cannot be read
  pc,      \* "idle", or the loop that runs
  idx,     \* its index
  chain,   \* the boot chain asked for
  list,    \* lun_list of update_data
  turn,    \* index in list of the disk that is prepared
  work,    \* entries array in the hands of gpt_boot_chain_swap
  second,  \* second[l]: the entries array of the secondary GPT
  ptns, partition_map  \* argument and result of gpt_utils_get_partition_map

given == <<ufs, disks, broken>>
loop  == <<pc, idx, chain, list, turn, work>>
devicesVars == <<given, loop, second, ptns, partition_map>>

DevicesInit ==
  /\ ufs \in BOOLEAN /\ disks \in Layouts /\ broken \in Unresolved
  /\ ~ufs => \A l \in Luns \ {BlkDevFile} : disks[l] = <<>>
  /\ pc = "idle" /\ idx = 1 /\ chain = "main" /\ list = <<>> /\ turn = 1 /\ work = <<>>
  /\ second = disks
  /\ ptns = <<>> /\ partition_map = [l \in Luns |-> <<>>]
-----------------------------------------------------------------------------
(* by-name: stat finds the link of every partition; readlink may fail.  The *)
(* links are long enough to name a disk (PATH_TRUNCATE_LOC), which          *)
(* prepare_boot_update looks at and get_dev_path_from_partition_name does   *)
(* not.                                                                     *)

Exists(n)   == \E l \in Luns : n \in Elements(disks[l])
Holder(n)   == CHOOSE l \in Luns : n \in Elements(disks[l])
Resolves(n) == Exists(n) /\ n \notin broken

(* The partitions that are switched by other means: the comparisons look at *)
(* the beginning of the name alone, so that xbl_config goes with xbl.       *)
MultiImg(n) == IsPrefixOf(<<"multiimgoem">>, n) \/ IsPrefixOf(<<"multiimgqti">>, n)
Skipped(n)  == MultiImg(n) \/ (ufs /\ IsPrefixOf(<<"xbl">>, n))

(* PTN_SWAP_LIST has a partition twice, but one that is skipped, and no     *)
(* partition with its twin.                                                 *)
ASSUME SwapListAssumption ==
  /\ SwapList \in Seq(Seq(STRING))
  /\ \A j, k \in DOMAIN SwapList :
       /\ SwapList[j] # Bak(SwapList[k])
       /\ SwapList[j] = SwapList[k] => j = k \/ MultiImg(SwapList[j])

(* add_lun_to_update_list                                                   *)
AddLun_Repeats(l, lst) ==
  IF lst # <<>> /\ Len(lst) < MAX_LUNS - 1 /\ lst[Len(lst)] = l THEN lst ELSE Append(lst, l)
AddLun(l, lst) ==
  IF lst # <<>> /\ Len(lst) < MAX_LUNS - 1 /\ l \in Elements(lst) THEN lst ELSE Append(lst, l)

(* prepare_boot_update, for the stage that boots from chain c: first the    *)
(* disks are listed, then the secondary GPT of each is made.                *)
prepare_boot_update(c) ==
  /\ pc = "idle" /\ pc' = IF ufs THEN "collect" ELSE "luns"
  /\ list' = IF ufs THEN <<>> ELSE <<BlkDevFile>>
  /\ chain' = c /\ idx' = 1 /\ turn' = 1
  /\ UNCHANGED <<given, work, second, ptns, partition_map>>

Collect ==
  /\ pc = "collect"
  /\ IF idx > Len(SwapList)
     THEN /\ pc' = "luns" /\ UNCHANGED <<idx, list>>
     ELSE LET n == SwapList[idx] IN
          /\ list' = IF ~Skipped(n) /\ Resolves(Bak(n)) THEN AddLun(Holder(Bak(n)), list)
                                                        ELSE list
          /\ idx' = idx + 1 /\ UNCHANGED pc
  /\ UNCHANGED <<given, chain, turn, work, second, ptns, partition_map>>

(* gpt2_set_boot_chain starts from the primary entries.                     *)
Prepared(l) == disks[l]
NextLun ==
  /\ pc = "luns"
  /\ IF turn > Len(list)
     THEN pc' = "idle" /\ UNCHANGED <<idx, turn, work, second>>
     ELSE IF chain = "bak"
     THEN pc' = "swap" /\ idx' = 1 /\ work' = Prepared(list[turn]) /\ UNCHANGED <<turn, second>>
     ELSE /\ second' = [second EXCEPT ![list[turn]] = Prepared(list[turn])]
          /\ turn' = turn + 1 /\ UNCHANGED <<pc, idx, work>>
  /\ UNCHANGED <<given, chain, list, ptns, partition_map>>

(* gpt_pentry_seek: the first entry from index f on that is called n or     *)
(* n followed by "bak"; 0 when there is none.                               *)
gpt_pentry_seek_Prefix(n, entries, f) ==
  LET found == {k \in f .. Len(entries) : IsPrefixOf(n, entries[k])}
  IN  IF found = {} THEN 0 ELSE CHOOSE k \in found : \A m \in found : k <= m
gpt_pentry_seek(n, entries, f) ==
  LET found == {k \in f .. Len(entries) : entries[k] \in {n, Bak(n)}}
  IN  IF found = {} THEN 0 ELSE CHOOSE k \in found : \A m \in found : k <= m

Swapped_Overwrite(n, entries) ==
  LET p == gpt_pentry_seek(n, entries, 1)
      q == gpt_pentry_seek(n, entries, p + 1)
  IN  IF p = 0 \/ q = 0 THEN entries ELSE [entries EXCEPT ![p] = entries[q]]
Swapped(n, entries) ==
  LET p == gpt_pentry_seek(n, entries, 1)
      q == gpt_pentry_seek(n, entries, p + 1)
  IN  IF p = 0 \/ q = 0 THEN entries
      ELSE [entries EXCEPT ![p] = entries[q], ![q] = entries[p]]

(* gpt_boot_chain_swap; an array without twins is not written back.         *)
Swap ==
  /\ pc = "swap"
  /\ IF idx > Len(SwapList)
     THEN /\ second' = IF work = Prepared(list[turn]) THEN second
                       ELSE [second EXCEPT ![list[turn]] = work]
          /\ pc' = "luns" /\ turn' = turn + 1 /\ UNCHANGED <<idx, work>>
     ELSE /\ work' = IF Skipped(SwapList[idx]) THEN work ELSE Swapped(SwapList[idx], work)
          /\ idx' = idx + 1 /\ UNCHANGED <<pc, turn, second>>
  /\ UNCHANGED <<given, chain, list, ptns, partition_map>>
-----------------------------------------------------------------------------
(* gpt_utils_get_partition_map; get_dev_path_from_partition_name does not   *)
(* look whether an eMMC partition exists.                                   *)

gpt_utils_get_partition_map(lst) ==
  /\ pc = "idle" /\ lst # <<>>
  /\ pc' = "map" /\ idx' = 1 /\ ptns' = lst
  /\ partition_map' = [l \in Luns |-> <<>>]
  /\ UNCHANGED <<given, chain, list, turn, work, second>>

Entered(map, l, n) == [map EXCEPT ![l] = Append(@, n)]
MapPartition ==
  /\ pc = "map"
  /\ IF idx > Len(ptns)
     THEN pc' = "idle" /\ UNCHANGED <<idx, partition_map>>
     ELSE /\ idx' = idx + 1 /\ UNCHANGED pc
          /\ partition_map' =
               IF ~ufs THEN Entered(partition_map, BlkDevFile, ptns[idx])
               ELSE IF Resolves(ptns[idx])
               THEN Entered(partition_map, Holder(ptns[idx]), ptns[idx])
               ELSE partition_map
  /\ UNCHANGED <<given, chain, list, turn, work, second, ptns>>
-----------------------------------------------------------------------------
DevicesNext ==
  \/ \E c \in {"main", "bak"} : prepare_boot_update(c)
  \/ Collect \/ NextLun \/ Swap
  \/ \E lst \in PtnLists : gpt_utils_get_partition_map(lst)
  \/ MapPartition

DevicesSpec == DevicesInit /\ [][DevicesNext]_devicesVars
-----------------------------------------------------------------------------
DevicesTypeOK ==
  /\ pc \in {"idle", "collect", "luns", "swap", "map"}
  /\ idx \in Nat /\ turn \in Nat
  /\ chain \in {"main", "bak"} /\ list \in Seq(Luns)

(* A disk is prepared once (prepare_boot_update, add_lun_to_update_list).   *)
EachLunOnce == NoRepeats(list) /\ Len(list) < MAX_LUNS

(* The disk l that the map is to have n under, and how many of the first k  *)
(* partitions asked for are to be there.                                    *)
Belongs(n, l) == IF ufs THEN Resolves(n) /\ Holder(n) = l ELSE l = BlkDevFile
CountOf(k, l) == Cardinality({m \in 1 .. k : Belongs(ptns[m], l)})

(* The disks prepared are those with the twin of a partition that is to be  *)
(* swapped, and gpt_utils_get_partition_map has every partition it finds    *)
(* under its own disk, in the order of the list and as often as there.      *)
LookupExact ==
  /\ DevicesTypeOK /\ EachLunOnce
  /\ ufs /\ pc \in {"luns", "swap"} =>
       Elements(list) = {Holder(Bak(n)) : n \in {m \in Names : ~Skipped(m) /\ Resolves(Bak(m))}}
  /\ pc = "map" /\ idx > Len(ptns) => \A l \in Luns :
       /\ Len(partition_map[l]) = CountOf(Len(ptns), l)
       /\ \A k \in DOMAIN ptns :
            Belongs(ptns[k], l) => partition_map[l][CountOf(k, l)] = ptns[k]

(* After the stage that boots the backups the secondary GPT names the twin  *)
(* in the place of every partition whose twin is on its disk and has a link *)
(* - whatever the order of the entries and whichever names begin alike -    *)
(* and after the one that boots the main chain it is as the primary again.  *)
SecondaryAsAsked ==
  pc = "luns" /\ turn > Len(list) =>
    IF chain = "main" THEN \A l \in Elements(list) : second[l] = disks[l]
    ELSE \A l \in Luns, n \in Names :
           /\ ~Skipped(n) /\ {n, Bak(n)} \subseteq Elements(disks[l]) /\ (ufs => Resolves(Bak(n)))
           => /\ second[l][IndexOf(n, disks[l])] = Bak(n)
              /\ second[l][IndexOf(Bak(n), disks[l])] = n

(* No secondary GPT ever loses a partition or names one twice, and a        *)
(* partition that is not in the list keeps its place (gpt_boot_chain_swap). *)
NothingLost ==
  \A l \in Luns :
    /\ Len(second[l]) = Len(disks[l]) /\ Elements(second[l]) = Elements(disks[l])
    /\ \A k \in DOMAIN disks[l] :
         second[l][k] # disks[l][k] => \E n \in Names : disks[l][k] \in {n, Bak(n)}
=============================================================================
